---- MODULE Spec2Model ----
(***************************************************************************)
(* Model of the resumable batch-fetch orchestration of steamids-parser:    *)
(* the status store (database.py, checkpoint.py), the price-history        *)
(* orchestrator (itad_parser_main.py) with its hybrid two-stage fetcher    *)
(* (itad_price_parser_hybrid.py), the CCU orchestrator (parser.py) and the *)
(* retry-errors operation of the control plane (api_server.py).            *)
(***************************************************************************)
EXTENDS Integers, Sequences, FiniteSets, TLC

\* ------------------------------------------------------------------ bounds
\* Number of item IDs in the universe (the real lists hold thousands).
MaxItems == 2
\* config.ITAD_BATCH_SIZE is 200; the model plans with a smaller slice so
\* that one run has several batches.
ITAD_BATCH_SIZE == 1
\* config.COMPARE_BATCH_SIZE is 10; bounded in the same way.
COMPARE_BATCH_SIZE == 2
\* Number of distinct time stamps an upstream response may carry.
MaxStamp == 1
\* Number of runs explored in one behaviour (a first run, then a re-run); one
\* more run may be started, and is not followed further.
MaxRuns == 2
\* Number of run threads of one source that may exist at once.
MaxThreads == 2
\* BrowserManager.num_contexts (config.PARALLEL_THREADS by default), bounded.
num_contexts == 2
\* Number of coroutines that use the session pool on the event loop.
MaxCallers == 3
\* Number of distinct cookies a site may set.
MaxCookies == 2
\* Resolution of the clock: ticks in one second.
TicksPerSecond == 4
\* Number of acquire() calls made on one limiter.
MaxCalls == 10
\* Ticks that may pass between the calls, outside the limiter.
MaxIdle == 2
\* config.ITAD_PARALLEL_THREADS is 3: worker threads of the Stage-2 pool.
ITAD_PARALLEL_THREADS == 2
\* Number of requests sent through one client.
MaxRequests == 3
\* Last tick of the clock.
MaxTime == 12
\* Longest item list handed to initialize_app_ids (an ID may occur twice).
MaxIds == 3
\* Number of CheckpointManager calls made one by one in a behaviour.
MaxSteps == 4
\* config.STEAM_BATCH_SIZE is 200; bounded like the other batch sizes.
STEAM_BATCH_SIZE == 2
\* config.STEAMCHARTS_RETRY_ATTEMPTS is 3; two attempts show a retry and the
\* last attempt.
STEAMCHARTS_RETRY_ATTEMPTS == 2
\* Ticks of the clock that pass while the writes to app_status are followed.
MaxElapsed == 1
\* Longest ID list and largest batch size handed to a BatchManager.
MaxListLen == 4
MaxBatchSize == 3

Items == 1..MaxItems
Stamps == 1..MaxStamp

\* itad_currency_mapping.SUPPORTED_CURRENCIES, cut to its first two entries.
SUPPORTED_CURRENCIES == <<"USD", "EUR">>
CurrencySet == {SUPPORTED_CURRENCIES[k] : k \in 1..Len(SUPPORTED_CURRENCIES)}

\* Texts of the exceptions a batch may raise (str(e)).
Exceptions == {"E1"}

\* ----------------------------------------------------------------- helpers
Range(s) == {s[k] : k \in 1..Len(s)}

RECURSIVE SeqOfSet(_)
SeqOfSet(S) == IF S = {} THEN <<>>
               ELSE LET m == CHOOSE x \in S : \A y \in S : x <= y
                    IN <<m>> \o SeqOfSet(S \ {m})

\* A message column: the fixed text and the exception text embedded in it.
Message(text, exc) == [text |-> text, exc |-> exc]
NULL == Message("NULL", "")

get_country_for_currency(c) ==
    IF c = "USD" THEN "US" ELSE IF c = "EUR" THEN "DE" ELSE IF c = "MXN" THEN "MX" ELSE "NONE"
get_currency_symbol(c) ==
    IF c = "USD" THEN "$" ELSE IF c = "EUR" THEN "EURSIGN" ELSE IF c = "MXN" THEN "$" ELSE c
get_currency_name(c) ==
    IF c = "USD" THEN "U.S. Dollar" ELSE IF c = "EUR" THEN "Euro"
    ELSE IF c = "MXN" THEN "Mexican Peso" ELSE c

\* ------------------------------------------------------------------- state
VARIABLES
    use_postgresql,   \* Database.use_postgresql
    app_status,       \* table app_status: one row per item (status "absent": no row)
    ccu_history,      \* table ccu_history: set of rows
    price_history,    \* table price_history: set of rows
    errors,           \* table errors (the error log)
    checkpoint,       \* the checkpoint file: last snapshot of the statistics
    app_ids_file,     \* the item list file
    source,           \* which orchestrator owns the run: itad / steamcharts / steamdb
    pc,               \* position of the run
    running,          \* ITADParserMain.running / SteamDBParser.running
    parser_running,   \* ITADPriceParserHybrid.running
    app_ids,          \* IDs loaded by this run
    batches,          \* the plan of this run
    batch_num,        \* 1-based index of the current batch
    uuid_cache,       \* ITADPriceParserHybrid._uuid_cache (its key set)
    available_currencies, \* result of Stage 1 for the current batch
    cur_idx,          \* next currency of the Stage-1 loop
    item_idx,         \* next item of the per-item loop
    todo,             \* Stage-2 tasks of the current item not yet run
    game_records,     \* records collected for the current item
    all_records,      \* records collected for the current batch
    exc,              \* text of the exception being handled
    current_index,    \* BatchManager.current_index
    processed_set,    \* BatchManager.processed_batches
    processed_batches, \* the counter processed_batches of run_async
    ccu_results,      \* CCU data fetched for the items of the current batch
    leased,           \* browser contexts held by run_async
    history_calls,    \* observation: (item, currency) pairs sent to get_price_history in this batch
    skipped,          \* observation: items for which a probe or history call was skipped because the flag was cleared
    raised,           \* observation: batch index -> text of the exception its processing raised
    dispatched,       \* observation: indices of the batches this run dispatched
    stuck,            \* observation: items found processing when this run loaded (left by a killed run)
    retried,          \* observation: this run was started by retry-errors
    conflicts,        \* observation: tables in which a save met a stored key with another value
    cancelled,        \* observation: the flag was cleared during this run
    runs,             \* number of runs started so far
    itad_parser_running,  \* api_server.itad_parser_running
    itad_parser_instance, \* api_server.itad_parser_instance: the thread whose object is published, 0 for None
    itad_thread,      \* the threads started on run_itad_parser_in_thread: position, ITADParserMain.running, items left
    response,         \* observation: the answer of the last request
    available_contexts, \* BrowserManager.available_contexts
    context_lock,     \* BrowserManager.context_lock: the coroutine holding it, 0 when free
    cookies_file,     \* content of config.COOKIES_FILE (empty: no file, or an empty list)
    context_cookies,  \* cookie jar of each browser context
    caller,           \* the coroutines using the pool: position, context held, cookies read from the file
    loop_blocked,     \* the event-loop thread is blocked in Lock.acquire()
    released,         \* observation: cookies of the sessions given back since the last checkout
    now,              \* time.time(), in ticks
    rate,             \* RateLimiter.rate (0: no limiter constructed yet)
    tokens,           \* RateLimiter.tokens, in units of 1/TicksPerSecond of a token
    last_update,      \* RateLimiter.last_update
    wake,             \* end of the asyncio.sleep of the acquire() in progress, 0 when none sleeps
    acquired,         \* observation: number of acquire() calls that have returned
    idle_ticks,       \* observation: ticks that passed outside the waits of the limiter
    last_request_time, \* ITADAPIClient.last_request_time
    worker,           \* the threads inside _rate_limit: position and end of the sleep
    admitted,         \* observation: the times at which _rate_limit let a request through
    initialized,      \* the counter initialized of initialize_app_ids: INSERT statements executed
    calls,            \* number of CheckpointManager calls made one by one
    steam_run,        \* SteamParserMain.run: its position and the batches not yet processed
    handed,           \* observation: items handed to a fetcher, with their status when the run planned them
    twin_status,      \* table app_status of a second store, on the other backend, given the same calls
    batch_manager,    \* a BatchManager built on its own: its argument n, app_ids, batch_size, batches
    next_batch,       \* what the last get_next_batch() of a BatchManager used on its own returned: index in the plan, 0 for None
    run_exit,         \* how load_app_ids found the item list and what run() raised to its caller
    fetch,            \* the CCU fetcher call in progress or just returned, with what it returned
    fetch_outcome,    \* observation: for each item, the paths of the fetch whose result process_batch_async recorded last
    fetch_paths,      \* observation: the paths (of ObservedPaths) on which fetcher calls have returned so far
    returned_twice,   \* observation: a return_context() for a context its caller did not hold has appended
    stop_targets,     \* observation: the threads that had set itad_parser_running when /itad/stop answered 'stopping'
    dispatch,         \* the dispatch loop of run_async alone: position, passes made, batches returned
    fetched,          \* observation: (item, time stamp, currency) of the records Stage 2 has handed to the store
    parsed,           \* the last pass of the parsing loop of fetch_currency_history: input and records
    request           \* one call of ITADAPIClient._request: position, loop variable, requests sent, result

dbvars == <<use_postgresql, app_status, ccu_history, price_history, errors, checkpoint, app_ids_file>>
runvars == <<source, pc, running, parser_running, app_ids, batches, batch_num>>
batchvars == <<uuid_cache, available_currencies, cur_idx, item_idx, todo, game_records, all_records, exc>>
ccuvars == <<current_index, processed_set, processed_batches, ccu_results, leased>>
obsvars == <<history_calls, skipped, raised, dispatched, stuck, retried, conflicts, cancelled, runs>>
apivars == <<itad_parser_running, itad_parser_instance, itad_thread, response>>
poolvars == <<available_contexts, context_lock, cookies_file, context_cookies, caller,
              loop_blocked, released>>
limitervars == <<rate, tokens, last_update, wake, acquired, idle_ticks>>
clientvars == <<last_request_time, worker, admitted>>
vars == <<dbvars, runvars, batchvars, ccuvars, obsvars, apivars, poolvars, now, limitervars,
          clientvars, initialized, calls, steam_run, handed, twin_status,
          batch_manager, next_batch, run_exit, fetch, fetch_outcome, fetch_paths,
          returned_twice, stop_targets, dispatch, fetched, parsed, request>>

\* ------------------------------------------------------------ status store
\* Column defaults of app_status (database.py, CREATE TABLE app_status).
DefaultRow == [status |-> "absent", ccu_processed |-> 0, price_processed |-> 0,
               ccu_error |-> NULL, price_error |-> NULL,
               itad_currencies_checked |-> {}, itad_price_processed |-> 0,
               itad_error |-> NULL, last_updated |-> 0]

\* The row of the INSERT of initialize_app_ids: pending, stamped with the
\* current time.
PendingRow == [DefaultRow EXCEPT !.status = "pending", !.last_updated = now]

RowExists(tbl, a) == tbl[a].status # "absent"

\* Database.update_app_status: PostgreSQL updates the named columns of an
\* existing row, SQLite replaces the whole row (unnamed columns fall back to
\* their defaults); status and last_updated are always written.
update_app_status(pg, tbl, a, st, kw) ==
    LET base == IF pg /\ RowExists(tbl, a) THEN tbl[a] ELSE DefaultRow
        row  == [f \in DOMAIN DefaultRow |->
                    IF f = "status" THEN st
                    ELSE IF f = "last_updated" THEN now
                    ELSE IF f \in DOMAIN kw THEN kw[f] ELSE base[f]]
    IN [tbl EXCEPT ![a] = row]

\* Database.log_error, the time stamp and the row id left out.
log_error(log, a, type, msg) == log \cup {[app_id |-> a, error_type |-> type, error_message |-> msg]}

IsErrorStatus(st) == st \in {"ccu_error", "price_error", "both_error", "itad_error"}

\* Database.get_statistics.
get_statistics(tbl, ccu, price) ==
    [total     |-> Cardinality({a \in Items : RowExists(tbl, a)}),
     completed |-> Cardinality({a \in Items : tbl[a].status = "completed"}),
     pending   |-> Cardinality({a \in Items : tbl[a].status = "pending"}),
     errors    |-> Cardinality({a \in Items : IsErrorStatus(tbl[a].status)}),
     ccu_records   |-> Cardinality(ccu),
     price_records |-> Cardinality(price)]

\* The status operation of api_server: progress_percent, in hundredths of a
\* percent (round(..., 2) of the ratio times 100).
progress_percent(stats) ==
    IF stats.total > 0
    THEN (2 * (stats.completed + stats.errors) * 10000 + stats.total) \div (2 * stats.total)
    ELSE 0

\* ------------------------------------------------------- time-series store
CcuKey(r) == <<r.app_id, r.datetime, r.value_type>>
PriceKey(r) == <<r.app_id, r.datetime, r.currency_symbol>>

\* INSERT OR IGNORE / ON CONFLICT DO NOTHING of one row.
InsertOrIgnoreCcu(tbl, r) ==
    IF \E s \in tbl : CcuKey(s) = CcuKey(r) THEN tbl ELSE tbl \cup {r}

\* Variant: INSERT OR REPLACE, the stored row gives way to the new one.
InsertOrReplacePrice(tbl, r) ==
    {s \in tbl : PriceKey(s) # PriceKey(r)} \cup {r}

InsertOrIgnorePrice(tbl, r) ==
    IF \E s \in tbl : PriceKey(s) = PriceKey(r) THEN tbl ELSE tbl \cup {r}

RECURSIVE save_ccu_data(_, _, _, _)
save_ccu_data(tbl, a, data_list, value_type) ==
    IF data_list = <<>> THEN tbl
    ELSE save_ccu_data(
            InsertOrIgnoreCcu(tbl, [app_id |-> a, datetime |-> Head(data_list).datetime,
                                    players |-> Head(data_list).players, value_type |-> value_type]),
            a, Tail(data_list), value_type)

RECURSIVE save_price_data_batch(_, _)
save_price_data_batch(tbl, records) ==
    IF records = <<>> THEN tbl
    ELSE save_price_data_batch(InsertOrIgnorePrice(tbl, Head(records)), Tail(records))

\* The rows save_price_data builds from the data of one item.
WithAppId(a, data_list) ==
    [k \in 1..Len(data_list) |->
        [app_id |-> a, datetime |-> data_list[k].datetime, price_final |-> data_list[k].price_final,
         currency_symbol |-> data_list[k].currency_symbol, currency_name |-> data_list[k].currency_name]]

save_price_data(tbl, a, data_list) == save_price_data_batch(tbl, WithAppId(a, data_list))

\* Whether a save of these rows meets a stored key that carries another value.
ConflictsCcu(tbl, a, data_list, value_type) ==
    \E k \in 1..Len(data_list) : \E r \in tbl :
        /\ CcuKey(r) = <<a, data_list[k].datetime, value_type>>
        /\ r.players # data_list[k].players
ConflictsPrice(tbl, records) ==
    \E k \in 1..Len(records) : \E r \in tbl :
        PriceKey(r) = PriceKey(records[k]) /\ r # records[k]
Noted(seen, table, met) == IF met THEN seen \cup {table} ELSE seen

\* ------------------------------------------------------ CheckpointManager
\* A result of an operation that writes both the status table and the log.
StoreResult(tbl, log) == [tbl |-> tbl, log |-> log]

\* Variant: every loaded ID is written as pending, whether its row exists or not.
initialize_app_ids_Upsert(tbl, ids) ==
    [a \in Items |-> IF a \in Range(ids) THEN PendingRow ELSE tbl[a]]

\* The INSERT statements initialize_app_ids executes, counted as its loop does.
RECURSIVE initialized_count(_, _)
initialized_count(tbl, ids) ==
    IF ids = <<>> THEN 0
    ELSE IF RowExists(tbl, Head(ids)) THEN initialized_count(tbl, Tail(ids))
    ELSE 1 + initialized_count([tbl EXCEPT ![Head(ids)] = PendingRow],
                               Tail(ids))

RECURSIVE initialize_app_ids(_, _)
initialize_app_ids(tbl, ids) ==
    IF ids = <<>> THEN tbl
    ELSE initialize_app_ids(
            IF RowExists(tbl, Head(ids)) THEN tbl
            ELSE [tbl EXCEPT ![Head(ids)] = PendingRow],
            Tail(ids))

get_pending_app_ids(tbl) == SeqOfSet({a \in Items : tbl[a].status = "pending"})

NoKw == [f \in {} |-> 0]

\* Variant: the status does not depend on the count.
mark_ccu_done_AnyCount(pg, tbl, a, ccu_count) ==
    update_app_status(pg, tbl, a, "ccu_done", [ccu_processed |-> ccu_count])

mark_ccu_done(pg, tbl, a, ccu_count) ==
    update_app_status(pg, tbl, a, IF ccu_count > 0 THEN "ccu_done" ELSE "ccu_error",
                      [ccu_processed |-> ccu_count])

mark_price_done(pg, tbl, a, price_count) ==
    LET ccu_count == IF RowExists(tbl, a) THEN tbl[a].ccu_processed ELSE 0
        st == IF price_count > 0
              THEN (IF ccu_count > 0 THEN "completed" ELSE "price_done")
              ELSE (IF tbl[a].status = "ccu_done" THEN "ccu_error" ELSE "price_error")
    IN update_app_status(pg, tbl, a, st, [price_processed |-> price_count])

mark_app_completed(pg, tbl, a, ccu_count, price_count) ==
    update_app_status(pg, tbl, a, "completed",
                      [ccu_processed |-> ccu_count, price_processed |-> price_count])

mark_app_error(pg, tbl, log, a, error_type, msg) ==
    LET new == IF error_type = "ccu"
               THEN update_app_status(pg, tbl, a, "ccu_error", [ccu_error |-> msg])
               ELSE IF error_type = "price"
               THEN update_app_status(pg, tbl, a,
                        IF tbl[a].status = "ccu_error" THEN "both_error" ELSE "price_error",
                        [price_error |-> msg])
               ELSE update_app_status(pg, tbl, a, "both_error",
                        [ccu_error |-> NULL, price_error |-> NULL])
    IN StoreResult(new, log_error(log, a, error_type, msg))

\* The operations of CheckpointManager for the single-stage source; their
\* callers are itad_parser_main.py and itad_price_parser_hybrid.py.
mark_itad_processing(pg, tbl, a) == update_app_status(pg, tbl, a, "itad_processing", NoKw)

mark_itad_completed(pg, tbl, a, n) ==
    update_app_status(pg, tbl, a, "itad_completed", [itad_price_processed |-> n])

mark_itad_error(pg, tbl, log, a, msg) ==
    StoreResult(update_app_status(pg, tbl, a, "itad_error", [itad_error |-> msg]),
                log_error(log, a, "itad", msg))

mark_itad_currencies_checked(tbl, a, currencies) ==
    [tbl EXCEPT ![a].itad_currencies_checked = currencies]

reset_stuck_processing_apps(tbl) ==
    [a \in Items |-> IF tbl[a].status = "itad_processing"
                     THEN [tbl[a] EXCEPT !.status = "pending", !.last_updated = now]
                     ELSE tbl[a]]

get_pending_itad_app_ids(tbl) == SeqOfSet({a \in Items : tbl[a].status = "pending"})

\* CheckpointManager.save_checkpoint: the snapshot written to the file.
save_checkpoint(tbl, ccu, price) == get_statistics(tbl, ccu, price)

\* Marking every item of a list, in order (the for loops of the orchestrators).
RECURSIVE MarkAllProcessing(_, _, _)
MarkAllProcessing(pg, tbl, ids) ==
    IF ids = <<>> THEN tbl
    ELSE MarkAllProcessing(pg, mark_itad_processing(pg, tbl, Head(ids)), Tail(ids))

RECURSIVE MarkAllItadError(_, _, _, _, _)
MarkAllItadError(pg, tbl, log, ids, msg) ==
    IF ids = <<>> THEN StoreResult(tbl, log)
    ELSE LET r == mark_itad_error(pg, tbl, log, Head(ids), msg)
         IN MarkAllItadError(pg, r.tbl, r.log, Tail(ids), msg)

RECURSIVE MarkAllCompleted(_, _, _)
MarkAllCompleted(pg, tbl, ids) ==
    IF ids = <<>> THEN tbl
    ELSE MarkAllCompleted(pg, mark_itad_completed(pg, tbl, Head(ids), 1), Tail(ids))

\* ------------------------------------------------------------ hybrid fetcher
\* An entry of a /games/history/v2 response: its time stamp and the price of
\* its deal (currency and amount).
HistoryEntry(t, c, amount) == [timestamp |-> t, currency |-> c, amount |-> amount]

\* Responses get_price_history may give for a request in currency c: none, a
\* series in c, or a series in another currency.
HistoryResponses(c) ==
    {<<>>} \cup {<<HistoryEntry(t, d, 1)>> : t \in Stamps, d \in CurrencySet}

\* ITADPriceParserHybrid._parse_history_entry: the records (none or one) an
\* entry yields for the expected currency.
ParseHistoryEntry(entry, a, currency) ==
    IF entry.currency # "" /\ entry.currency # currency THEN <<>>
    ELSE <<[app_id |-> a, datetime |-> entry.timestamp, price_final |-> entry.amount,
            currency_symbol |-> get_currency_symbol(currency),
            currency_name |-> get_currency_name(currency)]>>

RECURSIVE ParseHistory(_, _, _)
ParseHistory(data, a, currency) ==
    IF data = <<>> THEN <<>>
    ELSE ParseHistoryEntry(Head(data), a, currency) \o ParseHistory(Tail(data), a, currency)

\* Variant: Stage 2 fanned out over every supported currency.
Stage2Currencies_All(avail, a) == CurrencySet

\* The currencies Stage 2 is fanned out over for an item.
Stage2Currencies(avail, a) == avail[a]

\* ------------------------------------------------------------- planning
Min(x, y) == IF x < y THEN x ELSE y

\* Variant: slices one item too long, so that neighbours overlap.
SliceBatches_Overlap(ids, size) ==
    [k \in 1..((Len(ids) + size - 1) \div size) |->
        SubSeq(ids, (k - 1) * size + 1, Min(k * size + 1, Len(ids)))]

\* pending_app_ids[i:i + batch_size] for i in range(0, len, batch_size).
SliceBatches(ids, size) ==
    [k \in 1..((Len(ids) + size - 1) \div size) |->
        SubSeq(ids, (k - 1) * size + 1, Min(k * size, Len(ids)))]

FilterLoaded(pending, loaded) == SelectSeq(pending, LAMBDA a : a \in Range(loaded))

CurBatch == batches[batch_num]

\* -------------------------------------------------------------------- Init
Threads == 1..MaxThreads
\* time.time() when the program starts: later than second 0.
StartTime == TicksPerSecond
\* Rates (requests per second) a limiter is constructed with.
Rates == {1, 2, 4}
Workers == 1..ITAD_PARALLEL_THREADS
NoWait == [pos |-> "idle", until |-> 0]
\* ITADAPIClient.min_request_interval = 1.0 (seconds)
min_request_interval == TicksPerSecond
NoSteamRun == [pos |-> "idle", batches |-> <<>>]
NoManager == [n |-> 0, app_ids |-> <<>>, batch_size |-> COMPARE_BATCH_SIZE, batches |-> <<>>]
NoExit == [list_missing |-> FALSE, raised |-> ""]
NoMap == [a \in {} |-> <<>>]
NoFetch == [fetcher |-> "none", pos |-> "idle", batch |-> <<>>, api_responses |-> NoMap,
            idx |-> 0, results |-> NoMap, raised |-> FALSE, path |-> {}]
Contexts == 1..num_contexts
Callers == 1..MaxCallers
Cookies == 1..MaxCookies
NoCall == [pos |-> "idle", context |-> 0, cookies |-> {}]
NoThread == [pos |-> "none", running |-> FALSE, left |-> <<>>]
EmptyTable == [a \in Items |-> DefaultRow]
NoStats == get_statistics(EmptyTable, {}, {})
NoCurrencies == [a \in Items |-> {}]
NoRaise == [k \in {} |-> ""]
NoResults == [a \in Items |-> <<>>]

\* The dispatch loop of run_async before the BatchManager is built.
NoDispatch == [pos |-> "idle", iterations |-> 0, returned |-> <<>>]

\* The parsing loop of fetch_currency_history before it has run.
NoParse == [called |-> FALSE, data |-> <<>>, currency |-> "", records |-> <<>>]

\* ITADAPIClient._request before a call.
NoRequest == [pos |-> "idle", attempt |-> 0, sent |-> 0, only_429 |-> TRUE,
              result |-> "none", raised |-> ""]

Init ==
    /\ use_postgresql \in BOOLEAN
    /\ app_status = EmptyTable
    /\ ccu_history = {}
    /\ price_history = {}
    /\ errors = {}
    /\ checkpoint = NoStats
    /\ app_ids_file = [exists |-> TRUE, ids |-> SeqOfSet(Items)]
    /\ source = "none"
    /\ pc = "idle"
    /\ running = FALSE
    /\ parser_running = FALSE
    /\ app_ids = <<>>
    /\ batches = <<>>
    /\ batch_num = 0
    /\ uuid_cache = {}
    /\ available_currencies = NoCurrencies
    /\ cur_idx = 0
    /\ item_idx = 0
    /\ todo = {}
    /\ game_records = <<>>
    /\ all_records = <<>>
    /\ exc = ""
    /\ current_index = 0
    /\ processed_set = {}
    /\ processed_batches = 0
    /\ ccu_results = NoResults
    /\ leased = 0
    /\ history_calls = {}
    /\ skipped = {}
    /\ raised = NoRaise
    /\ dispatched = {}
    /\ stuck = {}
    /\ retried = FALSE
    /\ conflicts = {}
    /\ cancelled = FALSE
    /\ runs = 0
    /\ itad_parser_running = FALSE
    /\ itad_parser_instance = 0
    /\ itad_thread = [t \in Threads |-> NoThread]
    /\ response = ""
    /\ available_contexts = [k \in 1..num_contexts |-> k]
    /\ context_lock = 0
    /\ cookies_file = {}
    /\ context_cookies = [x \in Contexts |-> {}]
    /\ caller = [c \in Callers |-> NoCall]
    /\ loop_blocked = FALSE
    /\ released = {}
    /\ now = StartTime
    /\ rate = 0
    /\ tokens = 0
    /\ last_update = 0
    /\ wake = 0
    /\ acquired = 0
    /\ idle_ticks = 0
    /\ last_request_time = 0
    /\ worker = [w \in Workers |-> NoWait]
    /\ admitted = <<>>
    /\ initialized = 0
    /\ calls = 0
    /\ steam_run = NoSteamRun
    /\ handed = {}
    /\ twin_status = EmptyTable
    /\ batch_manager = NoManager
    /\ next_batch = 0
    /\ run_exit = NoExit
    /\ fetch = NoFetch
    /\ fetch_outcome = [a \in Items |-> {}]
    /\ fetch_paths = {}
    /\ request = NoRequest
    /\ parsed = NoParse
    /\ stop_targets = {}
    /\ dispatch = NoDispatch
    /\ fetched = {}
    /\ returned_twice = FALSE

\* The state a run thread starts from: a fresh orchestrator object.
FreshRun(src) ==
    /\ runs <= MaxRuns
    /\ runs' = runs + 1
    /\ source' = src
    /\ pc' = "load"
    /\ running' = TRUE
    /\ parser_running' = TRUE
    /\ app_ids' = <<>>
    /\ batches' = <<>>
    /\ batch_num' = 0
    /\ uuid_cache' = {}
    /\ available_currencies' = NoCurrencies
    /\ cur_idx' = 0
    /\ item_idx' = 0
    /\ todo' = {}
    /\ game_records' = <<>>
    /\ all_records' = <<>>
    /\ exc' = ""
    /\ current_index' = 0
    /\ processed_set' = {}
    /\ processed_batches' = 0
    /\ ccu_results' = NoResults
    /\ leased' = 0
    /\ history_calls' = {}
    /\ skipped' = {}
    /\ raised' = NoRaise
    /\ dispatched' = {}
    /\ stuck' = {}
    /\ cancelled' = FALSE
    /\ run_exit' = NoExit

NoRun == pc \in {"idle", "done"}

\* ---------------------------------------------------- ITADParserMain.run
\* start_itad_parser -> run_itad_parser_in_thread -> ITADParserMain().run()
start_itad_parser ==
    /\ NoRun
    /\ FreshRun("itad")
    /\ retried' = FALSE
    /\ UNCHANGED <<use_postgresql, app_status, ccu_history, price_history, errors, checkpoint,
                   app_ids_file, conflicts, itad_parser_running, itad_parser_instance, itad_thread,
                   response, available_contexts, context_lock, cookies_file, context_cookies,
                   caller, loop_blocked, released, now, rate, tokens, last_update, wake, acquired,
                   idle_ticks, last_request_time, worker, admitted, initialized, calls, steam_run,
                   handed, twin_status, batch_manager, next_batch, fetch, fetch_outcome,
                   fetch_paths, returned_twice, stop_targets, dispatch, fetched, parsed, request>>

\* load_app_ids, initialize_app_ids and reset_stuck_processing_apps; without
\* the file load_app_ids raises FileNotFoundError, which run() logs and
\* raises again.
ItadLoad ==
    /\ source = "itad" /\ pc = "load" /\ runs <= MaxRuns
    /\ IF app_ids_file.exists
       THEN /\ app_ids' = app_ids_file.ids
            /\ app_status' = reset_stuck_processing_apps(
                                initialize_app_ids(app_status, app_ids_file.ids))
            /\ stuck' = {a \in Items : app_status[a].status = "itad_processing"}
            /\ pc' = "plan"
            /\ UNCHANGED run_exit
       ELSE /\ pc' = "done"
            /\ run_exit' = [list_missing |-> TRUE, raised |-> "FileNotFoundError"]
            /\ UNCHANGED <<app_ids, app_status, stuck>>
    /\ UNCHANGED <<use_postgresql, ccu_history, price_history, errors, checkpoint, app_ids_file,
                   source, running, parser_running, batches, batch_num, uuid_cache,
                   available_currencies, cur_idx, item_idx, todo, game_records, all_records, exc,
                   current_index, processed_set, processed_batches, ccu_results, leased,
                   history_calls, skipped, raised, dispatched, retried, conflicts, cancelled, runs,
                   itad_parser_running, itad_parser_instance, itad_thread, response,
                   available_contexts, context_lock, cookies_file, context_cookies, caller,
                   loop_blocked, released, now, rate, tokens, last_update, wake, acquired,
                   idle_ticks, last_request_time, worker, admitted, initialized, calls, steam_run,
                   handed, twin_status, batch_manager, next_batch, fetch, fetch_outcome,
                   fetch_paths, returned_twice, stop_targets, dispatch, fetched, parsed, request>>

\* get_pending_itad_app_ids, the filter on the loaded list and the slicing.
ItadPlan ==
    /\ source = "itad" /\ pc = "plan"
    /\ LET pending_app_ids == FilterLoaded(get_pending_itad_app_ids(app_status), app_ids)
       IN IF pending_app_ids = <<>>
          THEN /\ pc' = "done"
               /\ UNCHANGED <<batches, batch_num>>
          ELSE /\ batches' = SliceBatches(pending_app_ids, ITAD_BATCH_SIZE)
               /\ batch_num' = 1
               /\ pc' = "loop"
    /\ UNCHANGED <<use_postgresql, app_status, ccu_history, price_history, errors, checkpoint,
                   app_ids_file, source, running, parser_running, app_ids, uuid_cache,
                   available_currencies, cur_idx, item_idx, todo, game_records, all_records, exc,
                   current_index, processed_set, processed_batches, ccu_results, leased,
                   history_calls, skipped, raised, dispatched, stuck, retried, conflicts,
                   cancelled, runs, itad_parser_running, itad_parser_instance, itad_thread,
                   response, available_contexts, context_lock, cookies_file, context_cookies,
                   caller, loop_blocked, released, now, rate, tokens, last_update, wake, acquired,
                   idle_ticks, last_request_time, worker, admitted, initialized, calls, steam_run,
                   handed, twin_status, batch_manager, next_batch, run_exit, fetch, fetch_outcome,
                   fetch_paths, returned_twice, stop_targets, dispatch, fetched, parsed, request>>

\* Variant: the loop without the check of self.running at its top.
ItadLoop_NoFlagCheck ==
    /\ source = "itad" /\ pc = "loop"
    /\ IF batch_num > Len(batches)
       THEN /\ pc' = "final"
            /\ UNCHANGED dispatched
       ELSE /\ pc' = "mark"
            /\ dispatched' = dispatched \cup {batch_num}
    /\ UNCHANGED <<use_postgresql, app_status, ccu_history, price_history, errors, checkpoint,
                   app_ids_file, source, running, parser_running, app_ids, batches, batch_num,
                   uuid_cache, available_currencies, cur_idx, item_idx, todo, game_records,
                   all_records, exc, current_index, processed_set, processed_batches, ccu_results,
                   leased, history_calls, skipped, raised, stuck, retried, conflicts, cancelled,
                   runs, itad_parser_running, itad_parser_instance, itad_thread, response,
                   available_contexts, context_lock, cookies_file, context_cookies, caller,
                   loop_blocked, released, now, rate, tokens, last_update, wake, acquired,
                   idle_ticks, last_request_time, worker, admitted, initialized, calls, steam_run,
                   handed, twin_status, batch_manager, next_batch, run_exit, fetch, fetch_outcome,
                   fetch_paths, returned_twice, stop_targets, dispatch, fetched, parsed, request>>

\* Top of the for loop: the end of the plan, or the check of self.running.
ItadLoop ==
    /\ source = "itad" /\ pc = "loop"
    /\ IF batch_num > Len(batches) \/ ~running
       THEN /\ pc' = "final"
            /\ UNCHANGED dispatched
       ELSE /\ pc' = "mark"
            /\ dispatched' = dispatched \cup {batch_num}
    /\ UNCHANGED <<use_postgresql, app_status, ccu_history, price_history, errors, checkpoint,
                   app_ids_file, source, running, parser_running, app_ids, batches, batch_num,
                   uuid_cache, available_currencies, cur_idx, item_idx, todo, game_records,
                   all_records, exc, current_index, processed_set, processed_batches, ccu_results,
                   leased, history_calls, skipped, raised, stuck, retried, conflicts, cancelled,
                   runs, itad_parser_running, itad_parser_instance, itad_thread, response,
                   available_contexts, context_lock, cookies_file, context_cookies, caller,
                   loop_blocked, released, now, rate, tokens, last_update, wake, acquired,
                   idle_ticks, last_request_time, worker, admitted, initialized, calls, steam_run,
                   handed, twin_status, batch_manager, next_batch, run_exit, fetch, fetch_outcome,
                   fetch_paths, returned_twice, stop_targets, dispatch, fetched, parsed, request>>

\* mark_itad_processing for every item of the batch; entry of
\* parse_price_history_batch.
ItadMark ==
    /\ source = "itad" /\ pc = "mark"
    /\ app_status' = MarkAllProcessing(use_postgresql, app_status, CurBatch)
    /\ pc' = "lookup"
    /\ uuid_cache' = {}
    /\ available_currencies' = NoCurrencies
    /\ all_records' = <<>>
    /\ history_calls' = {}
    /\ skipped' = skipped \ Range(CurBatch)
    /\ UNCHANGED <<use_postgresql, ccu_history, price_history, errors, checkpoint, app_ids_file,
                   source, running, parser_running, app_ids, batches, batch_num, cur_idx, item_idx,
                   todo, game_records, exc, current_index, processed_set, processed_batches,
                   ccu_results, leased, raised, dispatched, stuck, retried, conflicts, cancelled,
                   runs, itad_parser_running, itad_parser_instance, itad_thread, response,
                   available_contexts, context_lock, cookies_file, context_cookies, caller,
                   loop_blocked, released, now, rate, tokens, last_update, wake, acquired,
                   idle_ticks, last_request_time, worker, admitted, initialized, calls, steam_run,
                   handed, twin_status, batch_manager, next_batch, run_exit, fetch, fetch_outcome,
                   fetch_paths, returned_twice, stop_targets, dispatch, fetched, parsed, request>>

\* Step 1: lookup_games_by_shop_id for the batch.
ItadLookupFailed ==
    /\ source = "itad" /\ pc = "lookup"
    /\ pc' = "post"
    /\ UNCHANGED <<use_postgresql, app_status, ccu_history, price_history, errors, checkpoint,
                   app_ids_file, source, running, parser_running, app_ids, batches, batch_num,
                   uuid_cache, available_currencies, cur_idx, item_idx, todo, game_records,
                   all_records, exc, current_index, processed_set, processed_batches, ccu_results,
                   leased, history_calls, skipped, raised, dispatched, stuck, retried, conflicts,
                   cancelled, runs, itad_parser_running, itad_parser_instance, itad_thread,
                   response, available_contexts, context_lock, cookies_file, context_cookies,
                   caller, loop_blocked, released, now, rate, tokens, last_update, wake, acquired,
                   idle_ticks, last_request_time, worker, admitted, initialized, calls, steam_run,
                   handed, twin_status, batch_manager, next_batch, run_exit, fetch, fetch_outcome,
                   fetch_paths, returned_twice, stop_targets, dispatch, fetched, parsed, request>>

ItadLookupRaises ==
    /\ source = "itad" /\ pc = "lookup"
    /\ \E e \in Exceptions :
          /\ exc' = e
          /\ raised' = (batch_num :> e) @@ raised
    /\ pc' = "except"
    /\ UNCHANGED <<use_postgresql, app_status, ccu_history, price_history, errors, checkpoint,
                   app_ids_file, source, running, parser_running, app_ids, batches, batch_num,
                   uuid_cache, available_currencies, cur_idx, item_idx, todo, game_records,
                   all_records, current_index, processed_set, processed_batches, ccu_results,
                   leased, history_calls, skipped, dispatched, stuck, retried, conflicts,
                   cancelled, runs, itad_parser_running, itad_parser_instance, itad_thread,
                   response, available_contexts, context_lock, cookies_file, context_cookies,
                   caller, loop_blocked, released, now, rate, tokens, last_update, wake, acquired,
                   idle_ticks, last_request_time, worker, admitted, initialized, calls, steam_run,
                   handed, twin_status, batch_manager, next_batch, run_exit, fetch, fetch_outcome,
                   fetch_paths, returned_twice, stop_targets, dispatch, fetched, parsed, request>>

ItadLookupOk ==
    /\ source = "itad" /\ pc = "lookup"
    /\ \E found \in SUBSET Range(CurBatch) : uuid_cache' = found
    /\ cur_idx' = 1
    /\ pc' = "stage1"
    /\ UNCHANGED <<use_postgresql, app_status, ccu_history, price_history, errors, checkpoint,
                   app_ids_file, source, running, parser_running, app_ids, batches, batch_num,
                   available_currencies, item_idx, todo, game_records, all_records, exc,
                   current_index, processed_set, processed_batches, ccu_results, leased,
                   history_calls, skipped, raised, dispatched, stuck, retried, conflicts,
                   cancelled, runs, itad_parser_running, itad_parser_instance, itad_thread,
                   response, available_contexts, context_lock, cookies_file, context_cookies,
                   caller, loop_blocked, released, now, rate, tokens, last_update, wake, acquired,
                   idle_ticks, last_request_time, worker, admitted, initialized, calls, steam_run,
                   handed, twin_status, batch_manager, next_batch, run_exit, fetch, fetch_outcome,
                   fetch_paths, returned_twice, stop_targets, dispatch, fetched, parsed, request>>

\* Step 2, _determine_available_currencies: one storelow probe per currency
\* for the whole batch, the loop left when the flag is cleared.
ItadStage1 ==
    /\ source = "itad" /\ pc = "stage1"
    /\ IF cur_idx > Len(SUPPORTED_CURRENCIES)
       THEN /\ pc' = "items"
            /\ item_idx' = 1
            /\ UNCHANGED <<available_currencies, cur_idx, skipped>>
       ELSE IF ~parser_running
       THEN /\ pc' = "items"
            /\ item_idx' = 1
            /\ skipped' = skipped \cup Range(CurBatch)
            /\ UNCHANGED <<available_currencies, cur_idx>>
       ELSE /\ \E with_low \in SUBSET Range(CurBatch) :
                  available_currencies' =
                      [a \in Items |-> IF a \in with_low
                                       THEN available_currencies[a] \cup {SUPPORTED_CURRENCIES[cur_idx]}
                                       ELSE available_currencies[a]]
            /\ cur_idx' = cur_idx + 1
            /\ UNCHANGED <<pc, item_idx, skipped>>
    /\ UNCHANGED <<use_postgresql, app_status, ccu_history, price_history, errors, checkpoint,
                   app_ids_file, source, running, parser_running, app_ids, batches, batch_num,
                   uuid_cache, todo, game_records, all_records, exc, current_index, processed_set,
                   processed_batches, ccu_results, leased, history_calls, raised, dispatched,
                   stuck, retried, conflicts, cancelled, runs, itad_parser_running,
                   itad_parser_instance, itad_thread, response, available_contexts, context_lock,
                   cookies_file, context_cookies, caller, loop_blocked, released, now, rate,
                   tokens, last_update, wake, acquired, idle_ticks, last_request_time, worker,
                   admitted, initialized, calls, steam_run, handed, twin_status, batch_manager,
                   next_batch, run_exit, fetch, fetch_outcome, fetch_paths, returned_twice,
                   stop_targets, dispatch, fetched, parsed, request>>

\* Step 3, head of the per-item loop.
ItadItem ==
    /\ source = "itad" /\ pc = "items"
    /\ IF item_idx > Len(CurBatch)
       THEN /\ pc' = "save"
            /\ UNCHANGED <<app_status, errors, item_idx, todo, game_records>>
       ELSE LET a == CurBatch[item_idx] IN
            IF a \notin uuid_cache
            THEN LET r == mark_itad_error(use_postgresql, app_status, errors, a,
                                          Message("UUID not found in lookup", ""))
                 IN /\ app_status' = r.tbl
                    /\ errors' = r.log
                    /\ item_idx' = item_idx + 1
                    /\ UNCHANGED <<pc, todo, game_records>>
            ELSE IF available_currencies[a] = {}
            THEN LET r == mark_itad_error(use_postgresql, app_status, errors, a,
                                          Message("No currencies found in ITAD", ""))
                 IN /\ app_status' = r.tbl
                    /\ errors' = r.log
                    /\ item_idx' = item_idx + 1
                    /\ UNCHANGED <<pc, todo, game_records>>
            ELSE /\ app_status' = mark_itad_currencies_checked(app_status, a, available_currencies[a])
                 /\ todo' = Stage2Currencies(available_currencies, a)
                 /\ game_records' = <<>>
                 /\ pc' = "stage2"
                 /\ UNCHANGED <<errors, item_idx>>
    /\ UNCHANGED <<use_postgresql, ccu_history, price_history, checkpoint, app_ids_file, source,
                   running, parser_running, app_ids, batches, batch_num, uuid_cache,
                   available_currencies, cur_idx, all_records, exc, current_index, processed_set,
                   processed_batches, ccu_results, leased, history_calls, skipped, raised,
                   dispatched, stuck, retried, conflicts, cancelled, runs, itad_parser_running,
                   itad_parser_instance, itad_thread, response, available_contexts, context_lock,
                   cookies_file, context_cookies, caller, loop_blocked, released, now, rate,
                   tokens, last_update, wake, acquired, idle_ticks, last_request_time, worker,
                   admitted, initialized, calls, steam_run, handed, twin_status, batch_manager,
                   next_batch, run_exit, fetch, fetch_outcome, fetch_paths, returned_twice,
                   stop_targets, dispatch, fetched, parsed, request>>

\* fetch_currency_history of one currency, run by a worker of the pool.
ItadFetchCurrency ==
    /\ source = "itad" /\ pc = "stage2"
    /\ \E c \in todo :
          /\ todo' = todo \ {c}
          /\ IF ~parser_running
             THEN /\ skipped' = skipped \cup {CurBatch[item_idx]}
                  /\ UNCHANGED <<game_records, history_calls>>
             ELSE /\ history_calls' = history_calls \cup {<<CurBatch[item_idx], c>>}
                  /\ \E history_data \in HistoryResponses(c) :
                        game_records' = game_records \o ParseHistory(history_data, CurBatch[item_idx], c)
                  /\ UNCHANGED skipped
    /\ UNCHANGED <<use_postgresql, app_status, ccu_history, price_history, errors, checkpoint,
                   app_ids_file, source, pc, running, parser_running, app_ids, batches, batch_num,
                   uuid_cache, available_currencies, cur_idx, item_idx, all_records, exc,
                   current_index, processed_set, processed_batches, ccu_results, leased, raised,
                   dispatched, stuck, retried, conflicts, cancelled, runs, itad_parser_running,
                   itad_parser_instance, itad_thread, response, available_contexts, context_lock,
                   cookies_file, context_cookies, caller, loop_blocked, released, now, rate,
                   tokens, last_update, wake, acquired, idle_ticks, last_request_time, worker,
                   admitted, initialized, calls, steam_run, handed, twin_status, batch_manager,
                   next_batch, run_exit, fetch, fetch_outcome, fetch_paths, returned_twice,
                   stop_targets, dispatch, fetched, parsed, request>>

\* All futures of the item are done: the item is marked from its records.
ItadItemDone ==
    /\ source = "itad" /\ pc = "stage2" /\ todo = {}
    /\ LET a == CurBatch[item_idx] IN
          IF game_records # <<>>
             THEN /\ all_records' = all_records \o game_records
                  /\ app_status' = mark_itad_completed(use_postgresql, app_status, a, Len(game_records))
                  /\ UNCHANGED errors
             ELSE LET r == mark_itad_error(use_postgresql, app_status, errors, a,
                                           Message("No history records found", ""))
                  IN /\ app_status' = r.tbl
                     /\ errors' = r.log
                     /\ UNCHANGED all_records
    /\ item_idx' = item_idx + 1
    /\ pc' = "items"
    /\ UNCHANGED <<use_postgresql, ccu_history, price_history, checkpoint, app_ids_file, source,
                   running, parser_running, app_ids, batches, batch_num, uuid_cache,
                   available_currencies, cur_idx, todo, game_records, exc, current_index,
                   processed_set, processed_batches, ccu_results, leased, history_calls, skipped,
                   raised, dispatched, stuck, retried, conflicts, cancelled, runs,
                   itad_parser_running, itad_parser_instance, itad_thread, response,
                   available_contexts, context_lock, cookies_file, context_cookies, caller,
                   loop_blocked, released, now, rate, tokens, last_update, wake, acquired,
                   idle_ticks, last_request_time, worker, admitted, initialized, calls, steam_run,
                   handed, twin_status, batch_manager, next_batch, run_exit, fetch, fetch_outcome,
                   fetch_paths, returned_twice, stop_targets, dispatch, fetched, parsed, request>>

\* Step 4, _save_to_database: the records of the batch are stored.
ItadSave ==
    /\ source = "itad" /\ pc = "save"
    /\ price_history' = save_price_data_batch(price_history, all_records)
    /\ conflicts' = Noted(conflicts, "price", ConflictsPrice(price_history, all_records))
    /\ pc' = "post"
    /\ UNCHANGED <<use_postgresql, app_status, ccu_history, errors, checkpoint, app_ids_file,
                   source, running, parser_running, app_ids, batches, batch_num, uuid_cache,
                   available_currencies, cur_idx, item_idx, todo, game_records, all_records, exc,
                   current_index, processed_set, processed_batches, ccu_results, leased,
                   history_calls, skipped, raised, dispatched, stuck, retried, cancelled, runs,
                   itad_parser_running, itad_parser_instance, itad_thread, response,
                   available_contexts, context_lock, cookies_file, context_cookies, caller,
                   loop_blocked, released, now, rate, tokens, last_update, wake, acquired,
                   idle_ticks, last_request_time, worker, admitted, initialized, calls, steam_run,
                   handed, twin_status, batch_manager, next_batch, run_exit, fetch, fetch_outcome,
                   fetch_paths, returned_twice, stop_targets, dispatch, fetched, parsed, request>>

\* save_price_data_batch rolls back and re-raises.
ItadSaveRaises ==
    /\ source = "itad" /\ pc = "save" /\ all_records # <<>>
    /\ \E e \in Exceptions :
          /\ exc' = e
          /\ raised' = (batch_num :> e) @@ raised
    /\ pc' = "except"
    /\ UNCHANGED <<use_postgresql, app_status, ccu_history, price_history, errors, checkpoint,
                   app_ids_file, source, running, parser_running, app_ids, batches, batch_num,
                   uuid_cache, available_currencies, cur_idx, item_idx, todo, game_records,
                   all_records, current_index, processed_set, processed_batches, ccu_results,
                   leased, history_calls, skipped, dispatched, stuck, retried, conflicts,
                   cancelled, runs, itad_parser_running, itad_parser_instance, itad_thread,
                   response, available_contexts, context_lock, cookies_file, context_cookies,
                   caller, loop_blocked, released, now, rate, tokens, last_update, wake, acquired,
                   idle_ticks, last_request_time, worker, admitted, initialized, calls, steam_run,
                   handed, twin_status, batch_manager, next_batch, run_exit, fetch, fetch_outcome,
                   fetch_paths, returned_twice, stop_targets, dispatch, fetched, parsed, request>>

\* Back in run(): checkpoint, then the check of the flag after the batch.
ItadPost ==
    /\ source = "itad" /\ pc = "post"
    /\ checkpoint' = save_checkpoint(app_status, ccu_history, price_history)
    /\ IF ~running
       THEN /\ pc' = "final"
            /\ UNCHANGED batch_num
       ELSE /\ pc' = "loop"
            /\ batch_num' = batch_num + 1
    /\ UNCHANGED <<use_postgresql, app_status, ccu_history, price_history, errors, app_ids_file,
                   source, running, parser_running, app_ids, batches, uuid_cache,
                   available_currencies, cur_idx, item_idx, todo, game_records, all_records, exc,
                   current_index, processed_set, processed_batches, ccu_results, leased,
                   history_calls, skipped, raised, dispatched, stuck, retried, conflicts,
                   cancelled, runs, itad_parser_running, itad_parser_instance, itad_thread,
                   response, available_contexts, context_lock, cookies_file, context_cookies,
                   caller, loop_blocked, released, now, rate, tokens, last_update, wake, acquired,
                   idle_ticks, last_request_time, worker, admitted, initialized, calls, steam_run,
                   handed, twin_status, batch_manager, next_batch, run_exit, fetch, fetch_outcome,
                   fetch_paths, returned_twice, stop_targets, dispatch, fetched, parsed, request>>

\* Variant: the handler leaves the loop and marks nothing.
ItadExcept_Break ==
    /\ source = "itad" /\ pc = "except"
    /\ checkpoint' = save_checkpoint(app_status, ccu_history, price_history)
    /\ pc' = "final"
    /\ UNCHANGED <<use_postgresql, app_status, ccu_history, price_history, errors, app_ids_file,
                   source, running, parser_running, app_ids, batches, batch_num, uuid_cache,
                   available_currencies, cur_idx, item_idx, todo, game_records, all_records, exc,
                   current_index, processed_set, processed_batches, ccu_results, leased,
                   history_calls, skipped, raised, dispatched, stuck, retried, conflicts,
                   cancelled, runs, itad_parser_running, itad_parser_instance, itad_thread,
                   response, available_contexts, context_lock, cookies_file, context_cookies,
                   caller, loop_blocked, released, now, rate, tokens, last_update, wake, acquired,
                   idle_ticks, last_request_time, worker, admitted, initialized, calls, steam_run,
                   handed, twin_status, batch_manager, next_batch, run_exit, fetch, fetch_outcome,
                   fetch_paths, returned_twice, stop_targets, dispatch, fetched, parsed, request>>

\* except Exception: every item of the batch is marked, checkpoint, continue.
ItadExcept ==
    /\ source = "itad" /\ pc = "except"
    /\ LET r == MarkAllItadError(use_postgresql, app_status, errors, CurBatch,
                                 Message("Batch processing error: ", exc))
       IN /\ app_status' = r.tbl
          /\ errors' = r.log
          /\ checkpoint' = save_checkpoint(r.tbl, ccu_history, price_history)
    /\ batch_num' = batch_num + 1
    /\ pc' = "loop"
    /\ UNCHANGED <<use_postgresql, ccu_history, price_history, app_ids_file, source, running,
                   parser_running, app_ids, batches, uuid_cache, available_currencies, cur_idx,
                   item_idx, todo, game_records, all_records, exc, current_index, processed_set,
                   processed_batches, ccu_results, leased, history_calls, skipped, raised,
                   dispatched, stuck, retried, conflicts, cancelled, runs, itad_parser_running,
                   itad_parser_instance, itad_thread, response, available_contexts, context_lock,
                   cookies_file, context_cookies, caller, loop_blocked, released, now, rate,
                   tokens, last_update, wake, acquired, idle_ticks, last_request_time, worker,
                   admitted, initialized, calls, steam_run, handed, twin_status, batch_manager,
                   next_batch, run_exit, fetch, fetch_outcome, fetch_paths, returned_twice,
                   stop_targets, dispatch, fetched, parsed, request>>

\* Final summary and database.close(): run() returns.
ItadFinal ==
    /\ source = "itad" /\ pc = "final"
    /\ pc' = "done"
    /\ UNCHANGED <<use_postgresql, app_status, ccu_history, price_history, errors, checkpoint,
                   app_ids_file, source, running, parser_running, app_ids, batches, batch_num,
                   uuid_cache, available_currencies, cur_idx, item_idx, todo, game_records,
                   all_records, exc, current_index, processed_set, processed_batches, ccu_results,
                   leased, history_calls, skipped, raised, dispatched, stuck, retried, conflicts,
                   cancelled, runs, itad_parser_running, itad_parser_instance, itad_thread,
                   response, available_contexts, context_lock, cookies_file, context_cookies,
                   caller, loop_blocked, released, now, rate, tokens, last_update, wake, acquired,
                   idle_ticks, last_request_time, worker, admitted, initialized, calls, steam_run,
                   handed, twin_status, batch_manager, next_batch, run_exit, fetch, fetch_outcome,
                   fetch_paths, returned_twice, stop_targets, dispatch, fetched, parsed, request>>

\* ---------------------------------------------------------- cancellation
\* ITADParserMain._signal_handler: both flags, then a checkpoint.
ItadSignalHandler ==
    /\ source = "itad" /\ ~NoRun
    /\ running' = FALSE
    /\ parser_running' = FALSE
    /\ cancelled' = TRUE
    /\ checkpoint' = save_checkpoint(app_status, ccu_history, price_history)
    /\ UNCHANGED <<use_postgresql, app_status, ccu_history, price_history, errors, app_ids_file,
                   source, pc, app_ids, batches, batch_num, uuid_cache, available_currencies,
                   cur_idx, item_idx, todo, game_records, all_records, exc, current_index,
                   processed_set, processed_batches, ccu_results, leased, history_calls, skipped,
                   raised, dispatched, stuck, retried, conflicts, runs, itad_parser_running,
                   itad_parser_instance, itad_thread, response, available_contexts, context_lock,
                   cookies_file, context_cookies, caller, loop_blocked, released, now, rate,
                   tokens, last_update, wake, acquired, idle_ticks, last_request_time, worker,
                   admitted, initialized, calls, steam_run, handed, twin_status, batch_manager,
                   next_batch, run_exit, fetch, fetch_outcome, fetch_paths, returned_twice,
                   stop_targets, dispatch, fetched, parsed, request>>

\* stop_itad_parser: both flags of the published instance.
stop_itad_parser ==
    /\ source = "itad" /\ ~NoRun
    /\ running' = FALSE
    /\ parser_running' = FALSE
    /\ cancelled' = TRUE
    /\ UNCHANGED <<use_postgresql, app_status, ccu_history, price_history, errors, checkpoint,
                   app_ids_file, source, pc, app_ids, batches, batch_num, uuid_cache,
                   available_currencies, cur_idx, item_idx, todo, game_records, all_records, exc,
                   current_index, processed_set, processed_batches, ccu_results, leased,
                   history_calls, skipped, raised, dispatched, stuck, retried, conflicts, runs,
                   itad_parser_running, itad_parser_instance, itad_thread, response,
                   available_contexts, context_lock, cookies_file, context_cookies, caller,
                   loop_blocked, released, now, rate, tokens, last_update, wake, acquired,
                   idle_ticks, last_request_time, worker, admitted, initialized, calls, steam_run,
                   handed, twin_status, batch_manager, next_batch, run_exit, fetch, fetch_outcome,
                   fetch_paths, returned_twice, stop_targets, dispatch, fetched, parsed, request>>

\* The process is killed: everything in memory is lost, the store stays.
Crash ==
    /\ ~NoRun
    /\ pc' = "idle"
    /\ source' = "none"
    /\ running' = FALSE
    /\ parser_running' = FALSE
    /\ app_ids' = <<>>
    /\ batches' = <<>>
    /\ batch_num' = 0
    /\ uuid_cache' = {}
    /\ available_currencies' = NoCurrencies
    /\ cur_idx' = 0
    /\ item_idx' = 0
    /\ todo' = {}
    /\ game_records' = <<>>
    /\ all_records' = <<>>
    /\ exc' = ""
    /\ current_index' = 0
    /\ processed_set' = {}
    /\ processed_batches' = 0
    /\ ccu_results' = NoResults
    /\ leased' = 0
    /\ history_calls' = {}
    /\ skipped' = {}
    /\ raised' = NoRaise
    /\ dispatched' = {}
    /\ cancelled' = FALSE
    /\ stuck' = {}
    /\ retried' = FALSE
    /\ run_exit' = NoExit
    /\ UNCHANGED <<use_postgresql, app_status, ccu_history, price_history, errors, checkpoint,
                   app_ids_file, conflicts, runs, itad_parser_running, itad_parser_instance,
                   itad_thread, response, available_contexts, context_lock, cookies_file,
                   context_cookies, caller, loop_blocked, released, now, rate, tokens, last_update,
                   wake, acquired, idle_ticks, last_request_time, worker, admitted, initialized,
                   calls, steam_run, handed, twin_status, batch_manager, next_batch, fetch,
                   fetch_outcome, fetch_paths, returned_twice, stop_targets, dispatch, fetched,
                   parsed, request>>

\* ----------------------------------------------------------- retry-errors
\* Variant: the UPDATE without its WHERE clause.
ResetEveryRow(tbl) ==
    [a \in Items |-> [tbl[a] EXCEPT !.status = "pending", !.itad_error = NULL,
                                      !.itad_price_processed = 0,
                                      !.itad_currencies_checked = {}]]

\* The UPDATE of retry_itad_errors.
ResetItadErrors(tbl) ==
    [a \in Items |-> IF tbl[a].status = "itad_error"
                     THEN [tbl[a] EXCEPT !.status = "pending", !.itad_error = NULL,
                                         !.itad_price_processed = 0,
                                         !.itad_currencies_checked = {}]
                     ELSE tbl[a]]

\* retry_itad_errors with at least one itad_error row: the reset, then a run.
retry_itad_errors ==
    /\ NoRun
    /\ \E a \in Items : app_status[a].status = "itad_error"
    /\ app_status' = ResetItadErrors(app_status)
    /\ IF app_ids_file.exists
       THEN FreshRun("itad") /\ retried' = TRUE /\ UNCHANGED conflicts
       ELSE UNCHANGED <<runvars, batchvars, ccuvars, obsvars>>
    /\ UNCHANGED <<use_postgresql, ccu_history, price_history, errors, checkpoint, app_ids_file,
                   itad_parser_running, itad_parser_instance, itad_thread, response,
                   available_contexts, context_lock, cookies_file, context_cookies, caller,
                   loop_blocked, released, now, rate, tokens, last_update, wake, acquired,
                   idle_ticks, last_request_time, worker, admitted, initialized, calls, steam_run,
                   handed, twin_status, batch_manager, next_batch, fetch, fetch_outcome,
                   fetch_paths, returned_twice, stop_targets, dispatch, fetched, parsed, request>>

\* ------------------------------------------------------------ BatchManager
\* Variant: only the full slices are kept.
CreateBatches_FullOnly(ids, size) ==
    [k \in 1..(Len(ids) \div size) |-> SubSeq(ids, (k - 1) * size + 1, k * size)]

\* BatchManager._create_batches.
CreateBatches(ids, size) ==
    [k \in 1..((Len(ids) + size - 1) \div size) |->
        SubSeq(ids, (k - 1) * size + 1, Min(k * size, Len(ids)))]

\* BatchManager.has_pending_batches.
has_pending_batches(bs, processed) == \E k \in 1..Len(bs) : bs[k] \notin processed

\* Variant: get_next_batch leaves current_index at the batch it returns.
get_next_batch_NoAdvance(bs, processed, index) ==
    LET cand == {k \in (index + 1)..Len(bs) : bs[k] \notin processed}
    IN IF cand = {} THEN [idx |-> 0, current_index |-> IF index > Len(bs) THEN index ELSE Len(bs)]
       ELSE LET k == CHOOSE x \in cand : \A y \in cand : x <= y
            IN [idx |-> k, current_index |-> k - 1]

\* BatchManager.get_next_batch: the index of the batch returned (0: None) and
\* the value current_index is left at.
get_next_batch(bs, processed, index) ==
    LET cand == {k \in (index + 1)..Len(bs) : bs[k] \notin processed}
    IN IF cand = {} THEN [idx |-> 0, current_index |-> IF index > Len(bs) THEN index ELSE Len(bs)]
       ELSE LET k == CHOOSE x \in cand : \A y \in cand : x <= y
            IN [idx |-> k, current_index |-> k]

\* BatchManager.mark_batch_processed.
mark_batch_processed(processed, batch) == processed \cup {batch}

\* ------------------------------------------------- SteamDBParser.run_async
IsCcu == source \in {"steamcharts", "steamdb"}

\* Responses of the CCU fetchers after parsing: none, or one data point.
CcuResponses == {<<>>} \cup {<<[datetime |-> t, players |-> 1]>> : t \in Stamps}
\* PriceParser.parse_price_data: _parse_currency_history returns no record.
PriceResponses == {<<>>}

\* display_statistics / save_checkpoint every N processed batches.
STEAMCHARTS_STATS_EVERY == 100
STEAMDB_STATS_EVERY == 10

\* main() / run_parser_in_thread: SteamDBParser(data_source).run()
start_parser ==
    /\ NoRun
    /\ \E src \in {"steamcharts", "steamdb"} : FreshRun(src)
    /\ retried' = FALSE
    /\ UNCHANGED <<use_postgresql, app_status, ccu_history, price_history, errors, checkpoint,
                   app_ids_file, conflicts, itad_parser_running, itad_parser_instance, itad_thread,
                   response, available_contexts, context_lock, cookies_file, context_cookies,
                   caller, loop_blocked, released, now, rate, tokens, last_update, wake, acquired,
                   idle_ticks, last_request_time, worker, admitted, initialized, calls, steam_run,
                   handed, twin_status, batch_manager, next_batch, fetch, fetch_outcome,
                   fetch_paths, returned_twice, stop_targets, dispatch, fetched, parsed, request>>

\* load_app_ids and initialize_app_ids.
CcuLoad ==
    /\ IsCcu /\ pc = "load" /\ runs <= MaxRuns
    /\ IF app_ids_file.exists /\ app_ids_file.ids # <<>>
       THEN /\ app_ids' = app_ids_file.ids
            /\ app_status' = initialize_app_ids(app_status, app_ids_file.ids)
            /\ pc' = "plan"
            /\ UNCHANGED run_exit
       ELSE /\ pc' = "done"
            /\ run_exit' = [list_missing |-> ~app_ids_file.exists, raised |-> ""]
            /\ UNCHANGED <<app_ids, app_status>>
    /\ UNCHANGED <<use_postgresql, ccu_history, price_history, errors, checkpoint, app_ids_file,
                   source, running, parser_running, batches, batch_num, uuid_cache,
                   available_currencies, cur_idx, item_idx, todo, game_records, all_records, exc,
                   current_index, processed_set, processed_batches, ccu_results, leased,
                   history_calls, skipped, raised, dispatched, stuck, retried, conflicts,
                   cancelled, runs, itad_parser_running, itad_parser_instance, itad_thread,
                   response, available_contexts, context_lock, cookies_file, context_cookies,
                   caller, loop_blocked, released, now, rate, tokens, last_update, wake, acquired,
                   idle_ticks, last_request_time, worker, admitted, initialized, calls, steam_run,
                   handed, twin_status, batch_manager, next_batch, fetch, fetch_outcome,
                   fetch_paths, returned_twice, stop_targets, dispatch, fetched, parsed, request>>

\* get_pending_app_ids, BatchManager(...), and for steamdb get_context().
CcuPlan ==
    /\ IsCcu /\ pc = "plan"
    /\ LET pending_app_ids == get_pending_app_ids(app_status)
       IN IF pending_app_ids = <<>>
          THEN /\ pc' = "done"
               /\ UNCHANGED <<batches, leased>>
          ELSE /\ batches' = CreateBatches(pending_app_ids,
                                IF source = "steamdb" THEN COMPARE_BATCH_SIZE ELSE 1)
               /\ leased' = IF source = "steamdb" THEN 1 ELSE 0
               /\ pc' = "loop"
    /\ current_index' = 0
    /\ processed_set' = {}
    /\ processed_batches' = 0
    /\ UNCHANGED <<use_postgresql, app_status, ccu_history, price_history, errors, checkpoint,
                   app_ids_file, source, running, parser_running, app_ids, batch_num, uuid_cache,
                   available_currencies, cur_idx, item_idx, todo, game_records, all_records, exc,
                   ccu_results, history_calls, skipped, raised, dispatched, stuck, retried,
                   conflicts, cancelled, runs, itad_parser_running, itad_parser_instance,
                   itad_thread, response, available_contexts, context_lock, cookies_file,
                   context_cookies, caller, loop_blocked, released, now, rate, tokens, last_update,
                   wake, acquired, idle_ticks, last_request_time, worker, admitted, initialized,
                   calls, steam_run, handed, twin_status, batch_manager, next_batch, run_exit,
                   fetch, fetch_outcome, fetch_paths, returned_twice, stop_targets, dispatch,
                   fetched, parsed, request>>

\* while batch_manager.has_pending_batches() and self.running: get_next_batch()
CcuLoop ==
    /\ IsCcu /\ pc = "loop"
    /\ IF has_pending_batches(batches, processed_set) /\ running
       THEN LET r == get_next_batch(batches, processed_set, current_index)
            IN /\ current_index' = r.current_index
               /\ IF r.idx = 0
                  THEN /\ pc' = "finish"
                       /\ UNCHANGED <<batch_num, dispatched, item_idx, ccu_results>>
                  ELSE /\ batch_num' = r.idx
                       /\ dispatched' = dispatched \cup {r.idx}
                       /\ item_idx' = 1
                       /\ ccu_results' = NoResults
                       /\ pc' = IF source = "steamcharts" THEN "sc_fetch" ELSE "db_ccu"
       ELSE /\ pc' = "finish"
            /\ UNCHANGED <<current_index, batch_num, dispatched, item_idx, ccu_results>>
    /\ UNCHANGED <<use_postgresql, app_status, ccu_history, price_history, errors, checkpoint,
                   app_ids_file, source, running, parser_running, app_ids, batches, uuid_cache,
                   available_currencies, cur_idx, todo, game_records, all_records, exc,
                   processed_set, processed_batches, leased, history_calls, skipped, raised, stuck,
                   retried, conflicts, cancelled, runs, itad_parser_running, itad_parser_instance,
                   itad_thread, response, available_contexts, context_lock, cookies_file,
                   context_cookies, caller, loop_blocked, released, now, rate, tokens, last_update,
                   wake, acquired, idle_ticks, last_request_time, worker, admitted, initialized,
                   calls, steam_run, handed, twin_status, batch_manager, next_batch, run_exit,
                   fetch, fetch_outcome, fetch_paths, returned_twice, stop_targets, dispatch,
                   fetched, parsed, request>>

\* process_batch_async, steamcharts: fetch_ccu_data of the next item.
ScFetch ==
    /\ source = "steamcharts" /\ pc = "sc_fetch"
    /\ IF item_idx > Len(CurBatch)
       THEN /\ pc' = "after"
            /\ UNCHANGED ccu_results
       ELSE /\ \E avg_data \in CcuResponses :
                  ccu_results' = [ccu_results EXCEPT ![CurBatch[item_idx]] = avg_data]
            /\ pc' = "sc_save"
    /\ UNCHANGED <<use_postgresql, app_status, ccu_history, price_history, errors, checkpoint,
                   app_ids_file, source, running, parser_running, app_ids, batches, batch_num,
                   uuid_cache, available_currencies, cur_idx, item_idx, todo, game_records,
                   all_records, exc, current_index, processed_set, processed_batches, leased,
                   history_calls, skipped, raised, dispatched, stuck, retried, conflicts,
                   cancelled, runs, itad_parser_running, itad_parser_instance, itad_thread,
                   response, available_contexts, context_lock, cookies_file, context_cookies,
                   caller, loop_blocked, released, now, rate, tokens, last_update, wake, acquired,
                   idle_ticks, last_request_time, worker, admitted, initialized, calls, steam_run,
                   handed, twin_status, batch_manager, next_batch, run_exit, fetch, fetch_outcome,
                   fetch_paths, returned_twice, stop_targets, dispatch, fetched, parsed, request>>

\* save_ccu_data of the average series (the peak series is always empty).
ScSave ==
    /\ source = "steamcharts" /\ pc = "sc_save"
    /\ ccu_history' = save_ccu_data(ccu_history, CurBatch[item_idx],
                                    ccu_results[CurBatch[item_idx]], "avg")
    /\ conflicts' = Noted(conflicts, "ccu",
                          ConflictsCcu(ccu_history, CurBatch[item_idx],
                                       ccu_results[CurBatch[item_idx]], "avg"))
    /\ pc' = "sc_mark"
    /\ UNCHANGED <<use_postgresql, app_status, price_history, errors, checkpoint, app_ids_file,
                   source, running, parser_running, app_ids, batches, batch_num, uuid_cache,
                   available_currencies, cur_idx, item_idx, todo, game_records, all_records, exc,
                   current_index, processed_set, processed_batches, ccu_results, leased,
                   history_calls, skipped, raised, dispatched, stuck, retried, cancelled, runs,
                   itad_parser_running, itad_parser_instance, itad_thread, response,
                   available_contexts, context_lock, cookies_file, context_cookies, caller,
                   loop_blocked, released, now, rate, tokens, last_update, wake, acquired,
                   idle_ticks, last_request_time, worker, admitted, initialized, calls, steam_run,
                   handed, twin_status, batch_manager, next_batch, run_exit, fetch, fetch_outcome,
                   fetch_paths, returned_twice, stop_targets, dispatch, fetched, parsed, request>>

\* save_ccu_data re-raises: the handler of the item marks it.
ScSaveRaises ==
    /\ source = "steamcharts" /\ pc = "sc_save"
    /\ ccu_results[CurBatch[item_idx]] # <<>>
    /\ \E e \in Exceptions :
          LET r == mark_app_error(use_postgresql, app_status, errors, CurBatch[item_idx],
                                  "ccu", Message("", e))
          IN /\ app_status' = r.tbl
             /\ errors' = r.log
             /\ exc' = e
             /\ raised' = (batch_num :> e) @@ raised
    /\ item_idx' = item_idx + 1
    /\ pc' = "sc_fetch"
    /\ UNCHANGED <<use_postgresql, ccu_history, price_history, checkpoint, app_ids_file, source,
                   running, parser_running, app_ids, batches, batch_num, uuid_cache,
                   available_currencies, cur_idx, todo, game_records, all_records, current_index,
                   processed_set, processed_batches, ccu_results, leased, history_calls, skipped,
                   dispatched, stuck, retried, conflicts, cancelled, runs, itad_parser_running,
                   itad_parser_instance, itad_thread, response, available_contexts, context_lock,
                   cookies_file, context_cookies, caller, loop_blocked, released, now, rate,
                   tokens, last_update, wake, acquired, idle_ticks, last_request_time, worker,
                   admitted, initialized, calls, steam_run, handed, twin_status, batch_manager,
                   next_batch, run_exit, fetch, fetch_outcome, fetch_paths, returned_twice,
                   stop_targets, dispatch, fetched, parsed, request>>

\* mark_ccu_done, or mark_app_error when nothing was returned.
ScMark ==
    /\ source = "steamcharts" /\ pc = "sc_mark"
    /\ LET a == CurBatch[item_idx]
           total_records == Len(ccu_results[a])
       IN IF total_records > 0
          THEN /\ app_status' = mark_ccu_done(use_postgresql, app_status, a, total_records)
               /\ UNCHANGED errors
          ELSE LET r == mark_app_error(use_postgresql, app_status, errors, a,
                                       "ccu", Message("No data returned", ""))
               IN /\ app_status' = r.tbl
                  /\ errors' = r.log
    /\ item_idx' = item_idx + 1
    /\ pc' = "sc_fetch"
    /\ UNCHANGED <<use_postgresql, ccu_history, price_history, checkpoint, app_ids_file, source,
                   running, parser_running, app_ids, batches, batch_num, uuid_cache,
                   available_currencies, cur_idx, todo, game_records, all_records, exc,
                   current_index, processed_set, processed_batches, ccu_results, leased,
                   history_calls, skipped, raised, dispatched, stuck, retried, conflicts,
                   cancelled, runs, itad_parser_running, itad_parser_instance, itad_thread,
                   response, available_contexts, context_lock, cookies_file, context_cookies,
                   caller, loop_blocked, released, now, rate, tokens, last_update, wake, acquired,
                   idle_ticks, last_request_time, worker, admitted, initialized, calls, steam_run,
                   handed, twin_status, batch_manager, next_batch, run_exit, fetch, fetch_outcome,
                   fetch_paths, returned_twice, stop_targets, dispatch, fetched, parsed, request>>

\* process_batch_async, steamdb: parse_ccu_batch gives a result per item.
DbParseCcu ==
    /\ source = "steamdb" /\ pc = "db_ccu"
    /\ \E res \in [Range(CurBatch) -> CcuResponses] :
          ccu_results' = [a \in Items |-> IF a \in Range(CurBatch) THEN res[a] ELSE <<>>]
    /\ item_idx' = 1
    /\ pc' = "db_save"
    /\ UNCHANGED <<use_postgresql, app_status, ccu_history, price_history, errors, checkpoint,
                   app_ids_file, source, running, parser_running, app_ids, batches, batch_num,
                   uuid_cache, available_currencies, cur_idx, todo, game_records, all_records, exc,
                   current_index, processed_set, processed_batches, leased, history_calls, skipped,
                   raised, dispatched, stuck, retried, conflicts, cancelled, runs,
                   itad_parser_running, itad_parser_instance, itad_thread, response,
                   available_contexts, context_lock, cookies_file, context_cookies, caller,
                   loop_blocked, released, now, rate, tokens, last_update, wake, acquired,
                   idle_ticks, last_request_time, worker, admitted, initialized, calls, steam_run,
                   handed, twin_status, batch_manager, next_batch, run_exit, fetch, fetch_outcome,
                   fetch_paths, returned_twice, stop_targets, dispatch, fetched, parsed, request>>

\* for app_id, ccu_data in ccu_results.items(): save and mark.
DbSaveItem ==
    /\ source = "steamdb" /\ pc = "db_save"
    /\ IF item_idx > Len(CurBatch)
       THEN /\ pc' = "db_price"
            /\ item_idx' = 1
            /\ UNCHANGED <<app_status, errors, ccu_history, conflicts>>
       ELSE LET a == CurBatch[item_idx] IN
            /\ IF ccu_results[a] # <<>>
               THEN /\ ccu_history' = save_ccu_data(ccu_history, a, ccu_results[a], "avg")
                    /\ conflicts' = Noted(conflicts, "ccu",
                                          ConflictsCcu(ccu_history, a, ccu_results[a], "avg"))
                    /\ app_status' = mark_ccu_done(use_postgresql, app_status, a, Len(ccu_results[a]))
                    /\ UNCHANGED errors
               ELSE LET r == mark_app_error(use_postgresql, app_status, errors, a,
                                            "ccu", Message("No data returned", ""))
                    IN /\ app_status' = r.tbl
                       /\ errors' = r.log
                       /\ UNCHANGED <<ccu_history, conflicts>>
            /\ item_idx' = item_idx + 1
            /\ UNCHANGED pc
    /\ UNCHANGED <<use_postgresql, price_history, checkpoint, app_ids_file, source, running,
                   parser_running, app_ids, batches, batch_num, uuid_cache, available_currencies,
                   cur_idx, todo, game_records, all_records, exc, current_index, processed_set,
                   processed_batches, ccu_results, leased, history_calls, skipped, raised,
                   dispatched, stuck, retried, cancelled, runs, itad_parser_running,
                   itad_parser_instance, itad_thread, response, available_contexts, context_lock,
                   cookies_file, context_cookies, caller, loop_blocked, released, now, rate,
                   tokens, last_update, wake, acquired, idle_ticks, last_request_time, worker,
                   admitted, initialized, calls, steam_run, handed, twin_status, batch_manager,
                   next_batch, run_exit, fetch, fetch_outcome, fetch_paths, returned_twice,
                   stop_targets, dispatch, fetched, parsed, request>>

DbSaveRaises ==
    /\ source = "steamdb" /\ pc = "db_save"
    /\ item_idx <= Len(CurBatch)
    /\ ccu_results[CurBatch[item_idx]] # <<>>
    /\ \E e \in Exceptions :
          /\ exc' = e
          /\ raised' = (batch_num :> e) @@ raised
    /\ pc' = "db_except"
    /\ UNCHANGED <<use_postgresql, app_status, ccu_history, price_history, errors, checkpoint,
                   app_ids_file, source, running, parser_running, app_ids, batches, batch_num,
                   uuid_cache, available_currencies, cur_idx, item_idx, todo, game_records,
                   all_records, current_index, processed_set, processed_batches, ccu_results,
                   leased, history_calls, skipped, dispatched, stuck, retried, conflicts,
                   cancelled, runs, itad_parser_running, itad_parser_instance, itad_thread,
                   response, available_contexts, context_lock, cookies_file, context_cookies,
                   caller, loop_blocked, released, now, rate, tokens, last_update, wake, acquired,
                   idle_ticks, last_request_time, worker, admitted, initialized, calls, steam_run,
                   handed, twin_status, batch_manager, next_batch, run_exit, fetch, fetch_outcome,
                   fetch_paths, returned_twice, stop_targets, dispatch, fetched, parsed, request>>

\* The price loop: parse_price_data, then mark from its result.
DbPrice ==
    /\ source = "steamdb" /\ pc = "db_price"
    /\ IF item_idx > Len(CurBatch)
       THEN /\ pc' = "after"
            /\ UNCHANGED <<app_status, errors, price_history, conflicts, item_idx>>
       ELSE LET a == CurBatch[item_idx] IN
            \E price_data \in PriceResponses :
            /\ IF price_data # <<>>
               THEN LET t1 == mark_price_done(use_postgresql, app_status, a, Len(price_data))
                        ccu_count == Len(ccu_results[a])
                    IN /\ price_history' = save_price_data(price_history, a, price_data)
                       /\ conflicts' = conflicts
                       /\ app_status' = IF ccu_count > 0
                                        THEN mark_app_completed(use_postgresql, t1, a, ccu_count, Len(price_data))
                                        ELSE t1
                       /\ UNCHANGED errors
               ELSE LET r == mark_app_error(use_postgresql, app_status, errors, a,
                                            "price", Message("No data returned", ""))
                    IN /\ app_status' = r.tbl
                       /\ errors' = r.log
                       /\ UNCHANGED <<price_history, conflicts>>
            /\ item_idx' = item_idx + 1
            /\ UNCHANGED pc
    /\ UNCHANGED <<use_postgresql, ccu_history, checkpoint, app_ids_file, source, running,
                   parser_running, app_ids, batches, batch_num, uuid_cache, available_currencies,
                   cur_idx, todo, game_records, all_records, exc, current_index, processed_set,
                   processed_batches, ccu_results, leased, history_calls, skipped, raised,
                   dispatched, stuck, retried, cancelled, runs, itad_parser_running,
                   itad_parser_instance, itad_thread, response, available_contexts, context_lock,
                   cookies_file, context_cookies, caller, loop_blocked, released, now, rate,
                   tokens, last_update, wake, acquired, idle_ticks, last_request_time, worker,
                   admitted, initialized, calls, steam_run, handed, twin_status, batch_manager,
                   next_batch, run_exit, fetch, fetch_outcome, fetch_paths, returned_twice,
                   stop_targets, dispatch, fetched, parsed, request>>

RECURSIVE MarkAllAppError(_, _, _, _, _, _)
MarkAllAppError(pg, tbl, log, ids, type, msg) ==
    IF ids = <<>> THEN StoreResult(tbl, log)
    ELSE LET r == mark_app_error(pg, tbl, log, Head(ids), type, msg)
         IN MarkAllAppError(pg, r.tbl, r.log, Tail(ids), type, msg)

\* except Exception of process_batch_async: every item of the batch is marked.
DbExcept ==
    /\ source = "steamdb" /\ pc = "db_except"
    /\ LET r == MarkAllAppError(use_postgresql, app_status, errors, CurBatch, "ccu", Message("", exc))
       IN /\ app_status' = r.tbl
          /\ errors' = r.log
    /\ pc' = "after"
    /\ UNCHANGED <<use_postgresql, ccu_history, price_history, checkpoint, app_ids_file, source,
                   running, parser_running, app_ids, batches, batch_num, uuid_cache,
                   available_currencies, cur_idx, item_idx, todo, game_records, all_records, exc,
                   current_index, processed_set, processed_batches, ccu_results, leased,
                   history_calls, skipped, raised, dispatched, stuck, retried, conflicts,
                   cancelled, runs, itad_parser_running, itad_parser_instance, itad_thread,
                   response, available_contexts, context_lock, cookies_file, context_cookies,
                   caller, loop_blocked, released, now, rate, tokens, last_update, wake, acquired,
                   idle_ticks, last_request_time, worker, admitted, initialized, calls, steam_run,
                   handed, twin_status, batch_manager, next_batch, run_exit, fetch, fetch_outcome,
                   fetch_paths, returned_twice, stop_targets, dispatch, fetched, parsed, request>>

\* Back in run_async: mark_batch_processed, the counter, the periodic checkpoint.
CcuAfter ==
    /\ IsCcu /\ pc = "after"
    /\ processed_set' = mark_batch_processed(processed_set, CurBatch)
    /\ processed_batches' = processed_batches + 1
    /\ checkpoint' =
          IF (processed_batches + 1) %
                (IF source = "steamcharts" THEN STEAMCHARTS_STATS_EVERY ELSE STEAMDB_STATS_EVERY) = 0
          THEN save_checkpoint(app_status, ccu_history, price_history)
          ELSE checkpoint
    /\ pc' = "loop"
    /\ UNCHANGED <<use_postgresql, app_status, ccu_history, price_history, errors, app_ids_file,
                   source, running, parser_running, app_ids, batches, batch_num, uuid_cache,
                   available_currencies, cur_idx, item_idx, todo, game_records, all_records, exc,
                   current_index, ccu_results, leased, history_calls, skipped, raised, dispatched,
                   stuck, retried, conflicts, cancelled, runs, itad_parser_running,
                   itad_parser_instance, itad_thread, response, available_contexts, context_lock,
                   cookies_file, context_cookies, caller, loop_blocked, released, now, rate,
                   tokens, last_update, wake, acquired, idle_ticks, last_request_time, worker,
                   admitted, initialized, calls, steam_run, handed, twin_status, batch_manager,
                   next_batch, run_exit, fetch, fetch_outcome, fetch_paths, returned_twice,
                   stop_targets, dispatch, fetched, parsed, request>>

\* Variant: the session is given back only when the loop ran to its end.
CcuFinish_KeepLease ==
    /\ IsCcu /\ pc = "finish"
    /\ leased' = IF running THEN 0 ELSE leased
    /\ checkpoint' = save_checkpoint(app_status, ccu_history, price_history)
    /\ pc' = "done"
    /\ UNCHANGED <<use_postgresql, app_status, ccu_history, price_history, errors, app_ids_file,
                   source, running, parser_running, app_ids, batches, batch_num, uuid_cache,
                   available_currencies, cur_idx, item_idx, todo, game_records, all_records, exc,
                   current_index, processed_set, processed_batches, ccu_results, history_calls,
                   skipped, raised, dispatched, stuck, retried, conflicts, cancelled, runs,
                   itad_parser_running, itad_parser_instance, itad_thread, response,
                   available_contexts, context_lock, cookies_file, context_cookies, caller,
                   loop_blocked, released, now, rate, tokens, last_update, wake, acquired,
                   idle_ticks, last_request_time, worker, admitted, initialized, calls, steam_run,
                   handed, twin_status, batch_manager, next_batch, run_exit, fetch, fetch_outcome,
                   fetch_paths, returned_twice, stop_targets, dispatch, fetched, parsed, request>>

\* finally (close / return_context), final statistics and checkpoint.
CcuFinish ==
    /\ IsCcu /\ pc = "finish"
    /\ leased' = 0
    /\ checkpoint' = save_checkpoint(app_status, ccu_history, price_history)
    /\ pc' = "done"
    /\ UNCHANGED <<use_postgresql, app_status, ccu_history, price_history, errors, app_ids_file,
                   source, running, parser_running, app_ids, batches, batch_num, uuid_cache,
                   available_currencies, cur_idx, item_idx, todo, game_records, all_records, exc,
                   current_index, processed_set, processed_batches, ccu_results, history_calls,
                   skipped, raised, dispatched, stuck, retried, conflicts, cancelled, runs,
                   itad_parser_running, itad_parser_instance, itad_thread, response,
                   available_contexts, context_lock, cookies_file, context_cookies, caller,
                   loop_blocked, released, now, rate, tokens, last_update, wake, acquired,
                   idle_ticks, last_request_time, worker, admitted, initialized, calls, steam_run,
                   handed, twin_status, batch_manager, next_batch, run_exit, fetch, fetch_outcome,
                   fetch_paths, returned_twice, stop_targets, dispatch, fetched, parsed, request>>

\* SteamDBParser._signal_handler / stop_parser: the flag of the instance.
CcuSignalHandler ==
    /\ IsCcu /\ ~NoRun
    /\ running' = FALSE
    /\ cancelled' = TRUE
    /\ UNCHANGED <<use_postgresql, app_status, ccu_history, price_history, errors, checkpoint,
                   app_ids_file, source, pc, parser_running, app_ids, batches, batch_num,
                   uuid_cache, available_currencies, cur_idx, item_idx, todo, game_records,
                   all_records, exc, current_index, processed_set, processed_batches, ccu_results,
                   leased, history_calls, skipped, raised, dispatched, stuck, retried, conflicts,
                   runs, itad_parser_running, itad_parser_instance, itad_thread, response,
                   available_contexts, context_lock, cookies_file, context_cookies, caller,
                   loop_blocked, released, now, rate, tokens, last_update, wake, acquired,
                   idle_ticks, last_request_time, worker, admitted, initialized, calls, steam_run,
                   handed, twin_status, batch_manager, next_batch, run_exit, fetch, fetch_outcome,
                   fetch_paths, returned_twice, stop_targets, dispatch, fetched, parsed, request>>

CcuRun ==
    \/ CcuLoad \/ CcuPlan \/ CcuLoop
    \/ ScFetch \/ ScSave \/ ScSaveRaises \/ ScMark
    \/ DbParseCcu \/ DbSaveItem \/ DbSaveRaises \/ DbPrice \/ DbExcept
    \/ CcuAfter \/ CcuFinish

ItadRun ==
    \/ ItadLoad \/ ItadPlan \/ ItadLoop \/ ItadMark
    \/ ItadLookupFailed \/ ItadLookupRaises \/ ItadLookupOk
    \/ ItadStage1 \/ ItadItem \/ ItadFetchCurrency \/ ItadItemDone
    \/ ItadSave \/ ItadSaveRaises \/ ItadPost \/ ItadExcept \/ ItadFinal

Next ==
    \/ start_itad_parser
    \/ ItadRun
    \/ start_parser
    \/ CcuRun
    \/ CcuSignalHandler
    \/ ItadSignalHandler
    \/ stop_itad_parser
    \/ Crash
    \/ retry_itad_errors

Spec == Init /\ [][Next]_vars

\* The run thread is scheduled until run() returns: every step of a run that
\* stays possible is eventually taken.
SpecLive == Spec /\ WF_vars(ItadRun) /\ WF_vars(CcuRun)

\* ------------------------------------------------- runs over a replaced list
\* An upload to /start or /itad/start replaces the item list before the run:
\* file.save and the copy to config.APP_IDS_FILE.
UploadFile ==
    /\ NoRun
    /\ \E S \in (SUBSET Items) \ {{}} :
         app_ids_file' = [exists |-> TRUE, ids |-> SeqOfSet(S)]
    /\ UNCHANGED <<use_postgresql, app_status, ccu_history, price_history, errors, checkpoint,
                   source, pc, running, parser_running, app_ids, batches, batch_num, uuid_cache,
                   available_currencies, cur_idx, item_idx, todo, game_records, all_records, exc,
                   current_index, processed_set, processed_batches, ccu_results, leased,
                   history_calls, skipped, raised, dispatched, stuck, retried, conflicts,
                   cancelled, runs, itad_parser_running, itad_parser_instance, itad_thread,
                   response, available_contexts, context_lock, cookies_file, context_cookies,
                   caller, loop_blocked, released, now, rate, tokens, last_update, wake, acquired,
                   idle_ticks, last_request_time, worker, admitted, initialized, calls, steam_run,
                   handed, twin_status, batch_manager, next_batch, run_exit, fetch, fetch_outcome,
                   fetch_paths, returned_twice, stop_targets, dispatch, fetched, parsed, request>>

NextUpload ==
    \/ UploadFile
    \/ start_itad_parser
    \/ ItadRun
    \/ start_parser
    \/ CcuRun
    \/ CcuSignalHandler
    \/ stop_itad_parser

SpecUpload == Init /\ [][NextUpload]_vars

\* The CCU runs alone: a list is uploaded, runs are started and run to
\* their end.
NextCcu ==
    \/ UploadFile
    \/ start_parser
    \/ CcuRun

SpecCcu == Init /\ [][NextCcu]_vars

\* ---------------------------------------------------- runs without a list
\* config.APP_IDS_FILE does not exist when the run loads it (never uploaded,
\* or removed between two runs).
ListMissing ==
    /\ NoRun
    /\ app_ids_file.exists
    /\ app_ids_file' = [exists |-> FALSE, ids |-> <<>>]
    /\ UNCHANGED <<use_postgresql, app_status, ccu_history, price_history, errors, checkpoint,
                   source, pc, running, parser_running, app_ids, batches, batch_num, uuid_cache,
                   available_currencies, cur_idx, item_idx, todo, game_records, all_records, exc,
                   current_index, processed_set, processed_batches, ccu_results, leased,
                   history_calls, skipped, raised, dispatched, stuck, retried, conflicts,
                   cancelled, runs, itad_parser_running, itad_parser_instance, itad_thread,
                   response, available_contexts, context_lock, cookies_file, context_cookies,
                   caller, loop_blocked, released, now, rate, tokens, last_update, wake, acquired,
                   idle_ticks, last_request_time, worker, admitted, initialized, calls, steam_run,
                   handed, twin_status, batch_manager, next_batch, run_exit, fetch, fetch_outcome,
                   fetch_paths, returned_twice, stop_targets, dispatch, fetched, parsed, request>>

NextMissing ==
    \/ ListMissing
    \/ UploadFile
    \/ start_itad_parser
    \/ ItadRun
    \/ start_parser
    \/ CcuRun

SpecMissing == Init /\ [][NextMissing]_vars

\* ------------------------------------------------- writes under a running clock
\* datetime.now() moves on between the writes of the ITAD runs and of the
\* retry-errors operation.
TimePasses ==
    /\ now < StartTime + MaxElapsed
    /\ now' = now + 1
    /\ UNCHANGED <<use_postgresql, app_status, ccu_history, price_history, errors, checkpoint,
                   app_ids_file, source, pc, running, parser_running, app_ids, batches, batch_num,
                   uuid_cache, available_currencies, cur_idx, item_idx, todo, game_records,
                   all_records, exc, current_index, processed_set, processed_batches, ccu_results,
                   leased, history_calls, skipped, raised, dispatched, stuck, retried, conflicts,
                   cancelled, runs, itad_parser_running, itad_parser_instance, itad_thread,
                   response, available_contexts, context_lock, cookies_file, context_cookies,
                   caller, loop_blocked, released, rate, tokens, last_update, wake, acquired,
                   idle_ticks, last_request_time, worker, admitted, initialized, calls, steam_run,
                   handed, twin_status, batch_manager, next_batch, run_exit, fetch, fetch_outcome,
                   fetch_paths, returned_twice, stop_targets, dispatch, fetched, parsed, request>>

NextStamp ==
    \/ TimePasses
    \/ start_itad_parser
    \/ ItadRun
    \/ retry_itad_errors

SpecStamp == Init /\ [][NextStamp]_vars

\* ------------------------------------------- the ITAD endpoints and threads
\* The request handlers of api_server and the threads they start, with the run
\* of each thread reduced to its batch loop over the store.
ActiveThreads == {t \in Threads : itad_thread[t].pos # "none"}
FreeThreads == Threads \ ActiveThreads

\* threading.Thread(target=run_itad_parser_in_thread).start()
SpawnThread(threads) ==
    LET t == CHOOSE u \in Threads : threads[u].pos = "none"
    IN  [threads EXCEPT ![t] = [pos |-> "enter", running |-> FALSE, left |-> <<>>]]

\* /itad/start: the flag test, the file checks, then the thread.
ItadStartRequest ==
    /\ FreeThreads # {}
    /\ \E upload \in BOOLEAN :
         IF itad_parser_running
         THEN /\ response' = "already_running"
              /\ UNCHANGED itad_thread
         ELSE IF ~upload /\ ~app_ids_file.exists
         THEN /\ response' = "invalid_file"
              /\ UNCHANGED itad_thread
         ELSE /\ response' = "started"
              /\ itad_thread' = SpawnThread(itad_thread)
    /\ UNCHANGED <<use_postgresql, app_status, ccu_history, price_history, errors, checkpoint,
                   app_ids_file, source, pc, running, parser_running, app_ids, batches, batch_num,
                   uuid_cache, available_currencies, cur_idx, item_idx, todo, game_records,
                   all_records, exc, current_index, processed_set, processed_batches, ccu_results,
                   leased, history_calls, skipped, raised, dispatched, stuck, retried, conflicts,
                   cancelled, runs, itad_parser_running, itad_parser_instance, available_contexts,
                   context_lock, cookies_file, context_cookies, caller, loop_blocked, released,
                   now, rate, tokens, last_update, wake, acquired, idle_ticks, last_request_time,
                   worker, admitted, initialized, calls, steam_run, handed, twin_status,
                   batch_manager, next_batch, run_exit, fetch, fetch_outcome, fetch_paths,
                   returned_twice, stop_targets, dispatch, fetched, parsed, request>>

\* /itad/stop: the flags of the published object, then the module flag.
ItadStopRequest ==
    /\ IF ~itad_parser_running
       THEN /\ response' = "not_running"
            /\ UNCHANGED <<itad_thread, itad_parser_running, stop_targets>>
       ELSE /\ response' = "stopping"
            /\ stop_targets' = {t \in Threads : itad_thread[t].pos \in {"create", "load", "loop"}}
            /\ itad_thread' = IF itad_parser_instance # 0
                              THEN [itad_thread EXCEPT ![itad_parser_instance].running = FALSE]
                              ELSE itad_thread
            /\ itad_parser_running' = FALSE
    /\ UNCHANGED <<use_postgresql, app_status, ccu_history, price_history, errors, checkpoint,
                   app_ids_file, source, pc, running, parser_running, app_ids, batches, batch_num,
                   uuid_cache, available_currencies, cur_idx, item_idx, todo, game_records,
                   all_records, exc, current_index, processed_set, processed_batches, ccu_results,
                   leased, history_calls, skipped, raised, dispatched, stuck, retried, conflicts,
                   cancelled, runs, itad_parser_instance, available_contexts, context_lock,
                   cookies_file, context_cookies, caller, loop_blocked, released, now, rate,
                   tokens, last_update, wake, acquired, idle_ticks, last_request_time, worker,
                   admitted, initialized, calls, steam_run, handed, twin_status, batch_manager,
                   next_batch, run_exit, fetch, fetch_outcome, fetch_paths, returned_twice,
                   dispatch, fetched, parsed, request>>

\* /itad/retry-errors: the flag test, the count, the UPDATE, then the thread.
ItadRetryRequest ==
    /\ FreeThreads # {}
    /\ IF itad_parser_running
       THEN /\ response' = "already_running"
            /\ UNCHANGED <<itad_thread, app_status>>
       ELSE IF \A a \in Items : app_status[a].status # "itad_error"
       THEN /\ response' = "no_errors"
            /\ UNCHANGED <<itad_thread, app_status>>
       ELSE /\ app_status' = ResetItadErrors(app_status)
            /\ IF app_ids_file.exists
               THEN /\ response' = "started"
                    /\ itad_thread' = SpawnThread(itad_thread)
               ELSE /\ response' = "invalid_file"
                    /\ UNCHANGED itad_thread
    /\ UNCHANGED <<use_postgresql, ccu_history, price_history, errors, checkpoint, app_ids_file,
                   source, pc, running, parser_running, app_ids, batches, batch_num, uuid_cache,
                   available_currencies, cur_idx, item_idx, todo, game_records, all_records, exc,
                   current_index, processed_set, processed_batches, ccu_results, leased,
                   history_calls, skipped, raised, dispatched, stuck, retried, conflicts,
                   cancelled, runs, itad_parser_running, itad_parser_instance, available_contexts,
                   context_lock, cookies_file, context_cookies, caller, loop_blocked, released,
                   now, rate, tokens, last_update, wake, acquired, idle_ticks, last_request_time,
                   worker, admitted, initialized, calls, steam_run, handed, twin_status,
                   batch_manager, next_batch, run_exit, fetch, fetch_outcome, fetch_paths,
                   returned_twice, stop_targets, dispatch, fetched, parsed, request>>

\* run_itad_parser_in_thread, first statement of the try block.
ThreadEnter(t) ==
    /\ itad_thread[t].pos = "enter"
    /\ itad_parser_running' = TRUE
    /\ itad_thread' = [itad_thread EXCEPT ![t].pos = "create"]
    /\ UNCHANGED <<use_postgresql, app_status, ccu_history, price_history, errors, checkpoint,
                   app_ids_file, source, pc, running, parser_running, app_ids, batches, batch_num,
                   uuid_cache, available_currencies, cur_idx, item_idx, todo, game_records,
                   all_records, exc, current_index, processed_set, processed_batches, ccu_results,
                   leased, history_calls, skipped, raised, dispatched, stuck, retried, conflicts,
                   cancelled, runs, itad_parser_instance, response, available_contexts,
                   context_lock, cookies_file, context_cookies, caller, loop_blocked, released,
                   now, rate, tokens, last_update, wake, acquired, idle_ticks, last_request_time,
                   worker, admitted, initialized, calls, steam_run, handed, twin_status,
                   batch_manager, next_batch, run_exit, fetch, fetch_outcome, fetch_paths,
                   returned_twice, stop_targets, dispatch, fetched, parsed, request>>

\* itad_parser_instance = ITADParserMain(...): running is True.
ThreadCreate(t) ==
    /\ itad_thread[t].pos = "create"
    /\ itad_parser_instance' = t
    /\ itad_thread' = [itad_thread EXCEPT ![t].pos = "load", ![t].running = TRUE]
    /\ UNCHANGED <<use_postgresql, app_status, ccu_history, price_history, errors, checkpoint,
                   app_ids_file, source, pc, running, parser_running, app_ids, batches, batch_num,
                   uuid_cache, available_currencies, cur_idx, item_idx, todo, game_records,
                   all_records, exc, current_index, processed_set, processed_batches, ccu_results,
                   leased, history_calls, skipped, raised, dispatched, stuck, retried, conflicts,
                   cancelled, runs, itad_parser_running, response, available_contexts,
                   context_lock, cookies_file, context_cookies, caller, loop_blocked, released,
                   now, rate, tokens, last_update, wake, acquired, idle_ticks, last_request_time,
                   worker, admitted, initialized, calls, steam_run, handed, twin_status,
                   batch_manager, next_batch, run_exit, fetch, fetch_outcome, fetch_paths,
                   returned_twice, stop_targets, dispatch, fetched, parsed, request>>

\* run(): load, initialize, reset the stuck rows, plan the pending ones.
ThreadLoad(t) ==
    /\ itad_thread[t].pos = "load"
    /\ IF app_ids_file.exists
       THEN LET tbl == reset_stuck_processing_apps(
                          initialize_app_ids(app_status, app_ids_file.ids))
                pending == FilterLoaded(get_pending_itad_app_ids(tbl), app_ids_file.ids)
            IN  /\ app_status' = tbl
                /\ itad_thread' = [itad_thread EXCEPT
                                     ![t].pos = IF pending = <<>> THEN "finally" ELSE "loop",
                                     ![t].left = pending]
       ELSE /\ itad_thread' = [itad_thread EXCEPT ![t].pos = "finally"]
            /\ UNCHANGED app_status
    /\ UNCHANGED <<use_postgresql, ccu_history, price_history, errors, checkpoint, app_ids_file,
                   source, pc, running, parser_running, app_ids, batches, batch_num, uuid_cache,
                   available_currencies, cur_idx, item_idx, todo, game_records, all_records, exc,
                   current_index, processed_set, processed_batches, ccu_results, leased,
                   history_calls, skipped, raised, dispatched, stuck, retried, conflicts,
                   cancelled, runs, itad_parser_running, itad_parser_instance, response,
                   available_contexts, context_lock, cookies_file, context_cookies, caller,
                   loop_blocked, released, now, rate, tokens, last_update, wake, acquired,
                   idle_ticks, last_request_time, worker, admitted, initialized, calls, steam_run,
                   handed, twin_status, batch_manager, next_batch, run_exit, fetch, fetch_outcome,
                   fetch_paths, returned_twice, stop_targets, dispatch, fetched, parsed, request>>

\* One pass of the batch loop: the flag test, then the batch is marked
\* processing and every item of it ends completed or in error.
ThreadBatch(t) ==
    /\ itad_thread[t].pos = "loop"
    /\ LET me == itad_thread[t]
           batch == SubSeq(me.left, 1, Min(ITAD_BATCH_SIZE, Len(me.left)))
           rest == SubSeq(me.left, Len(batch) + 1, Len(me.left))
       IN  IF ~me.running \/ me.left = <<>>
           THEN /\ itad_thread' = [itad_thread EXCEPT ![t].pos = "finally"]
                /\ UNCHANGED <<app_status, errors>>
           ELSE \E failed \in SUBSET Range(batch) :
                  LET marked == MarkAllProcessing(use_postgresql, app_status, batch)
                      ok == SeqOfSet(Range(batch) \ failed)
                      bad == SeqOfSet(failed)
                      r == MarkAllItadError(use_postgresql, marked, errors, bad,
                                            "No history records found")
                  IN  /\ app_status' = MarkAllCompleted(use_postgresql, r.tbl, ok)
                      /\ errors' = r.log
                      /\ itad_thread' = [itad_thread EXCEPT ![t].left = rest]
    /\ UNCHANGED <<use_postgresql, ccu_history, price_history, checkpoint, app_ids_file, source,
                   pc, running, parser_running, app_ids, batches, batch_num, uuid_cache,
                   available_currencies, cur_idx, item_idx, todo, game_records, all_records, exc,
                   current_index, processed_set, processed_batches, ccu_results, leased,
                   history_calls, skipped, raised, dispatched, stuck, retried, conflicts,
                   cancelled, runs, itad_parser_running, itad_parser_instance, response,
                   available_contexts, context_lock, cookies_file, context_cookies, caller,
                   loop_blocked, released, now, rate, tokens, last_update, wake, acquired,
                   idle_ticks, last_request_time, worker, admitted, initialized, calls, steam_run,
                   handed, twin_status, batch_manager, next_batch, run_exit, fetch, fetch_outcome,
                   fetch_paths, returned_twice, stop_targets, dispatch, fetched, parsed, request>>

\* The finally block of run_itad_parser_in_thread: the thread returns.
ThreadFinally(t) ==
    /\ itad_thread[t].pos = "finally"
    /\ itad_parser_running' = FALSE
    /\ itad_parser_instance' = 0
    /\ itad_thread' = [itad_thread EXCEPT ![t] = NoThread]
    /\ stop_targets' = stop_targets \ {t}
    /\ UNCHANGED <<use_postgresql, app_status, ccu_history, price_history, errors, checkpoint,
                   app_ids_file, source, pc, running, parser_running, app_ids, batches, batch_num,
                   uuid_cache, available_currencies, cur_idx, item_idx, todo, game_records,
                   all_records, exc, current_index, processed_set, processed_batches, ccu_results,
                   leased, history_calls, skipped, raised, dispatched, stuck, retried, conflicts,
                   cancelled, runs, response, available_contexts, context_lock, cookies_file,
                   context_cookies, caller, loop_blocked, released, now, rate, tokens, last_update,
                   wake, acquired, idle_ticks, last_request_time, worker, admitted, initialized,
                   calls, steam_run, handed, twin_status, batch_manager, next_batch, run_exit,
                   fetch, fetch_outcome, fetch_paths, returned_twice, dispatch, fetched, parsed,
                   request>>

\* SteamParserMain.run up to its loop: load_error_app_ids and the batches.
load_error_app_ids(tbl) == SeqOfSet({a \in Items : tbl[a].status = "itad_error"})

SteamLoad ==
    /\ steam_run.pos = "idle"
    /\ LET ids == load_error_app_ids(app_status)
       IN  steam_run' = IF ids = <<>> THEN [pos |-> "done", batches |-> <<>>]
                        ELSE [pos |-> "loop", batches |-> SliceBatches(ids, STEAM_BATCH_SIZE)]
    /\ UNCHANGED <<use_postgresql, app_status, ccu_history, price_history, errors, checkpoint,
                   app_ids_file, source, pc, running, parser_running, app_ids, batches, batch_num,
                   uuid_cache, available_currencies, cur_idx, item_idx, todo, game_records,
                   all_records, exc, current_index, processed_set, processed_batches, ccu_results,
                   leased, history_calls, skipped, raised, dispatched, stuck, retried, conflicts,
                   cancelled, runs, itad_parser_running, itad_parser_instance, itad_thread,
                   response, available_contexts, context_lock, cookies_file, context_cookies,
                   caller, loop_blocked, released, now, rate, tokens, last_update, wake, acquired,
                   idle_ticks, last_request_time, worker, admitted, initialized, calls, handed,
                   twin_status, batch_manager, next_batch, run_exit, fetch, fetch_outcome,
                   fetch_paths, returned_twice, stop_targets, dispatch, fetched, parsed, request>>

\* The rows parse_current_prices builds for the items that have a price.
SteamRecords(got) ==
    LET ids == SeqOfSet(got)
    IN  [k \in 1..Len(ids) |->
            [app_id |-> ids[k], datetime |-> 1, price_final |-> 1, currency_symbol |-> "USD",
             currency_name |-> get_currency_name("USD")]]

\* One pass of the loop: parse_current_prices(batch) and the save of its rows.
SteamBatch ==
    /\ steam_run.pos = "loop"
    /\ IF steam_run.batches = <<>>
       THEN /\ steam_run' = [steam_run EXCEPT !.pos = "done"]
            /\ UNCHANGED <<price_history, handed>>
       ELSE LET batch == Head(steam_run.batches)
            IN  /\ \E got \in SUBSET Range(batch) :
                     price_history' = save_price_data_batch(price_history, SteamRecords(got))
                /\ handed' = handed \cup {[app_id |-> a, status |-> app_status[a].status] :
                                             a \in Range(batch)}
                /\ steam_run' = [steam_run EXCEPT !.batches = Tail(@)]
    /\ UNCHANGED <<use_postgresql, app_status, ccu_history, errors, checkpoint, app_ids_file,
                   source, pc, running, parser_running, app_ids, batches, batch_num, uuid_cache,
                   available_currencies, cur_idx, item_idx, todo, game_records, all_records, exc,
                   current_index, processed_set, processed_batches, ccu_results, leased,
                   history_calls, skipped, raised, dispatched, stuck, retried, conflicts,
                   cancelled, runs, itad_parser_running, itad_parser_instance, itad_thread,
                   response, available_contexts, context_lock, cookies_file, context_cookies,
                   caller, loop_blocked, released, now, rate, tokens, last_update, wake, acquired,
                   idle_ticks, last_request_time, worker, admitted, initialized, calls,
                   twin_status, batch_manager, next_batch, run_exit, fetch, fetch_outcome,
                   fetch_paths, returned_twice, stop_targets, dispatch, fetched, parsed, request>>

\* run() has returned; the next /steam/start builds a new SteamParserMain.
SteamReturn ==
    /\ steam_run.pos = "done"
    /\ steam_run' = NoSteamRun
    /\ UNCHANGED <<use_postgresql, app_status, ccu_history, price_history, errors, checkpoint,
                   app_ids_file, source, pc, running, parser_running, app_ids, batches, batch_num,
                   uuid_cache, available_currencies, cur_idx, item_idx, todo, game_records,
                   all_records, exc, current_index, processed_set, processed_batches, ccu_results,
                   leased, history_calls, skipped, raised, dispatched, stuck, retried, conflicts,
                   cancelled, runs, itad_parser_running, itad_parser_instance, itad_thread,
                   response, available_contexts, context_lock, cookies_file, context_cookies,
                   caller, loop_blocked, released, now, rate, tokens, last_update, wake, acquired,
                   idle_ticks, last_request_time, worker, admitted, initialized, calls, handed,
                   twin_status, batch_manager, next_batch, run_exit, fetch, fetch_outcome,
                   fetch_paths, returned_twice, stop_targets, dispatch, fetched, parsed, request>>

NextApi ==
    \/ ItadStartRequest
    \/ ItadStopRequest
    \/ ItadRetryRequest
    \/ \E t \in Threads : ThreadEnter(t)
    \/ \E t \in Threads : ThreadCreate(t)
    \/ \E t \in Threads : ThreadLoad(t)
    \/ \E t \in Threads : ThreadBatch(t)
    \/ \E t \in Threads : ThreadFinally(t)

SpecApi == Init /\ [][NextApi]_vars

\* The Steam price run over the store that ITAD runs leave behind.
NextSteam ==
    \/ ItadStartRequest
    \/ \E t \in Threads : ThreadEnter(t)
    \/ \E t \in Threads : ThreadCreate(t)
    \/ \E t \in Threads : ThreadLoad(t)
    \/ \E t \in Threads : ThreadBatch(t)
    \/ \E t \in Threads : ThreadFinally(t)
    \/ SteamLoad
    \/ SteamBatch
    \/ SteamReturn

SpecSteam == Init /\ [][NextSteam]_vars

\* ----------------------------------------------------------- BrowserManager
\* The session pool used by coroutines of one event loop. Code between two
\* awaits runs without interruption; context_lock is a threading.Lock, so a
\* coroutine that reaches "with self.context_lock" while a suspended coroutine
\* holds the lock blocks the thread of the event loop. The calls into the
\* browser are taken to succeed.
Append1(seq, x) == IF x \in Range(seq) THEN seq ELSE Append(seq, x)

\* A coroutine calls get_context().
CallGetContext(c) ==
    /\ ~loop_blocked
    /\ caller[c].pos = "idle"
    /\ caller' = [caller EXCEPT ![c].pos = "get"]
    /\ UNCHANGED <<use_postgresql, app_status, ccu_history, price_history, errors, checkpoint,
                   app_ids_file, source, pc, running, parser_running, app_ids, batches, batch_num,
                   uuid_cache, available_currencies, cur_idx, item_idx, todo, game_records,
                   all_records, exc, current_index, processed_set, processed_batches, ccu_results,
                   leased, history_calls, skipped, raised, dispatched, stuck, retried, conflicts,
                   cancelled, runs, itad_parser_running, itad_parser_instance, itad_thread,
                   response, available_contexts, context_lock, cookies_file, context_cookies,
                   loop_blocked, released, now, rate, tokens, last_update, wake, acquired,
                   idle_ticks, last_request_time, worker, admitted, initialized, calls, steam_run,
                   handed, twin_status, batch_manager, next_batch, run_exit, fetch, fetch_outcome,
                   fetch_paths, returned_twice, stop_targets, dispatch, fetched, parsed, request>>

\* One pass of the loop of get_context that does not sleep: the lock, the
\* pop, _load_cookies, up to the first await or to the return.
get_context(c) ==
    /\ ~loop_blocked
    /\ caller[c].pos = "get"
    /\ IF context_lock # 0
       THEN /\ loop_blocked' = TRUE
            /\ UNCHANGED <<caller, available_contexts, context_lock, released>>
       ELSE /\ available_contexts # <<>>
            /\ LET context == available_contexts[Len(available_contexts)]
                   cookies == cookies_file
               IN  /\ available_contexts' = SubSeq(available_contexts, 1, Len(available_contexts) - 1)
                   /\ IF cookies # {}
                      THEN /\ context_lock' = c
                           /\ caller' = [caller EXCEPT ![c] = [pos |-> "clear", context |-> context,
                                                               cookies |-> cookies]]
                           /\ UNCHANGED released
                      ELSE /\ caller' = [caller EXCEPT ![c] = [pos |-> "leased", context |-> context,
                                                               cookies |-> {}]]
                           /\ released' = {}
                           /\ UNCHANGED context_lock
            /\ UNCHANGED loop_blocked
    /\ UNCHANGED <<use_postgresql, app_status, ccu_history, price_history, errors, checkpoint,
                   app_ids_file, source, pc, running, parser_running, app_ids, batches, batch_num,
                   uuid_cache, available_currencies, cur_idx, item_idx, todo, game_records,
                   all_records, exc, current_index, processed_set, processed_batches, ccu_results,
                   leased, history_calls, skipped, raised, dispatched, stuck, retried, conflicts,
                   cancelled, runs, itad_parser_running, itad_parser_instance, itad_thread,
                   response, cookies_file, context_cookies, now, rate, tokens, last_update, wake,
                   acquired, idle_ticks, last_request_time, worker, admitted, initialized, calls,
                   steam_run, handed, twin_status, batch_manager, next_batch, run_exit, fetch,
                   fetch_outcome, fetch_paths, returned_twice, stop_targets, dispatch, fetched,
                   parsed, request>>

\* get_context resumes after await context.clear_cookies(), lock still held.
get_context_cleared(c) ==
    /\ ~loop_blocked
    /\ caller[c].pos = "clear"
    /\ context_cookies' = [context_cookies EXCEPT ![caller[c].context] = {}]
    /\ caller' = [caller EXCEPT ![c].pos = "add"]
    /\ UNCHANGED <<use_postgresql, app_status, ccu_history, price_history, errors, checkpoint,
                   app_ids_file, source, pc, running, parser_running, app_ids, batches, batch_num,
                   uuid_cache, available_currencies, cur_idx, item_idx, todo, game_records,
                   all_records, exc, current_index, processed_set, processed_batches, ccu_results,
                   leased, history_calls, skipped, raised, dispatched, stuck, retried, conflicts,
                   cancelled, runs, itad_parser_running, itad_parser_instance, itad_thread,
                   response, available_contexts, context_lock, cookies_file, loop_blocked,
                   released, now, rate, tokens, last_update, wake, acquired, idle_ticks,
                   last_request_time, worker, admitted, initialized, calls, steam_run, handed,
                   twin_status, batch_manager, next_batch, run_exit, fetch, fetch_outcome,
                   fetch_paths, returned_twice, stop_targets, dispatch, fetched, parsed, request>>

\* get_context resumes after await context.add_cookies(cookies) and returns.
get_context_added(c) ==
    /\ ~loop_blocked
    /\ caller[c].pos = "add"
    /\ context_cookies' = [context_cookies EXCEPT ![caller[c].context] = @ \cup caller[c].cookies]
    /\ context_lock' = 0
    /\ caller' = [caller EXCEPT ![c].pos = "leased", ![c].cookies = {}]
    /\ released' = {}
    /\ UNCHANGED <<use_postgresql, app_status, ccu_history, price_history, errors, checkpoint,
                   app_ids_file, source, pc, running, parser_running, app_ids, batches, batch_num,
                   uuid_cache, available_currencies, cur_idx, item_idx, todo, game_records,
                   all_records, exc, current_index, processed_set, processed_batches, ccu_results,
                   leased, history_calls, skipped, raised, dispatched, stuck, retried, conflicts,
                   cancelled, runs, itad_parser_running, itad_parser_instance, itad_thread,
                   response, available_contexts, cookies_file, loop_blocked, now, rate, tokens,
                   last_update, wake, acquired, idle_ticks, last_request_time, worker, admitted,
                   initialized, calls, steam_run, handed, twin_status, batch_manager, next_batch,
                   run_exit, fetch, fetch_outcome, fetch_paths, returned_twice, stop_targets,
                   dispatch, fetched, parsed, request>>

\* The session captures a cookie while a page is open in it.
CaptureCookie(c) ==
    /\ ~loop_blocked
    /\ caller[c].pos = "leased"
    /\ \E k \in Cookies \ context_cookies[caller[c].context] :
         context_cookies' = [context_cookies EXCEPT ![caller[c].context] = @ \cup {k}]
    /\ UNCHANGED <<use_postgresql, app_status, ccu_history, price_history, errors, checkpoint,
                   app_ids_file, source, pc, running, parser_running, app_ids, batches, batch_num,
                   uuid_cache, available_currencies, cur_idx, item_idx, todo, game_records,
                   all_records, exc, current_index, processed_set, processed_batches, ccu_results,
                   leased, history_calls, skipped, raised, dispatched, stuck, retried, conflicts,
                   cancelled, runs, itad_parser_running, itad_parser_instance, itad_thread,
                   response, available_contexts, context_lock, cookies_file, caller, loop_blocked,
                   released, now, rate, tokens, last_update, wake, acquired, idle_ticks,
                   last_request_time, worker, admitted, initialized, calls, steam_run, handed,
                   twin_status, batch_manager, next_batch, run_exit, fetch, fetch_outcome,
                   fetch_paths, returned_twice, stop_targets, dispatch, fetched, parsed, request>>

\* A coroutine calls return_context(context): up to await context.cookies().
CallReturnContext(c) ==
    /\ ~loop_blocked
    /\ caller[c].pos = "leased"
    /\ caller' = [caller EXCEPT ![c].pos = "return"]
    /\ UNCHANGED <<use_postgresql, app_status, ccu_history, price_history, errors, checkpoint,
                   app_ids_file, source, pc, running, parser_running, app_ids, batches, batch_num,
                   uuid_cache, available_currencies, cur_idx, item_idx, todo, game_records,
                   all_records, exc, current_index, processed_set, processed_batches, ccu_results,
                   leased, history_calls, skipped, raised, dispatched, stuck, retried, conflicts,
                   cancelled, runs, itad_parser_running, itad_parser_instance, itad_thread,
                   response, available_contexts, context_lock, cookies_file, context_cookies,
                   loop_blocked, released, now, rate, tokens, last_update, wake, acquired,
                   idle_ticks, last_request_time, worker, admitted, initialized, calls, steam_run,
                   handed, twin_status, batch_manager, next_batch, run_exit, fetch, fetch_outcome,
                   fetch_paths, returned_twice, stop_targets, dispatch, fetched, parsed, request>>

\* A context that is not of the pool, and the cookies it may hold.
ForeignContext == num_contexts + 1
ForeignJars == {{}, {1}}

\* A coroutine that holds no lease calls return_context(context) for a
\* context that is available or is not of the pool.
CallReturnSpare(c) ==
    /\ ~loop_blocked
    /\ caller[c].pos = "idle"
    /\ \E x \in Range(available_contexts) \cup {ForeignContext}, jar \in ForeignJars :
         caller' = [caller EXCEPT ![c] = [pos |-> "return_spare", context |-> x,
                                          cookies |-> IF x \in Contexts THEN {} ELSE jar]]
    /\ UNCHANGED <<use_postgresql, app_status, ccu_history, price_history, errors, checkpoint,
                   app_ids_file, source, pc, running, parser_running, app_ids, batches, batch_num,
                   uuid_cache, available_currencies, cur_idx, item_idx, todo, game_records,
                   all_records, exc, current_index, processed_set, processed_batches, ccu_results,
                   leased, history_calls, skipped, raised, dispatched, stuck, retried, conflicts,
                   cancelled, runs, itad_parser_running, itad_parser_instance, itad_thread,
                   response, available_contexts, context_lock, cookies_file, context_cookies,
                   loop_blocked, released, now, rate, tokens, last_update, wake, acquired,
                   idle_ticks, last_request_time, worker, admitted, initialized, calls, steam_run,
                   handed, twin_status, batch_manager, next_batch, run_exit, fetch, fetch_outcome,
                   fetch_paths, returned_twice, stop_targets, dispatch, fetched, parsed, request>>

\* The cookies await context.cookies() gave return_context.
ReturnedCookies(c) ==
    IF caller[c].context \in Contexts THEN context_cookies[caller[c].context]
    ELSE caller[c].cookies

\* Variant: return_context appends without looking at the pool.
return_context_NoTest(c) ==
    /\ ~loop_blocked
    /\ caller[c].pos \in {"return", "return_spare"}
    /\ LET cookies == ReturnedCookies(c)
       IN  /\ cookies_file' = IF cookies # {} THEN cookies ELSE cookies_file
           /\ IF context_lock # 0
              THEN /\ loop_blocked' = TRUE
                   /\ UNCHANGED <<caller, available_contexts, released, returned_twice>>
              ELSE /\ available_contexts' = Append(available_contexts, caller[c].context)
                   /\ returned_twice' = returned_twice
                   /\ caller' = [caller EXCEPT ![c] = NoCall]
                   /\ released' = released \cup cookies
                   /\ UNCHANGED loop_blocked
    /\ UNCHANGED <<use_postgresql, app_status, ccu_history, price_history, errors, checkpoint,
                   app_ids_file, source, pc, running, parser_running, app_ids, batches, batch_num,
                   uuid_cache, available_currencies, cur_idx, item_idx, todo, game_records,
                   all_records, exc, current_index, processed_set, processed_batches, ccu_results,
                   leased, history_calls, skipped, raised, dispatched, stuck, retried, conflicts,
                   cancelled, runs, itad_parser_running, itad_parser_instance, itad_thread,
                   response, context_lock, context_cookies, now, rate, tokens, last_update, wake,
                   acquired, idle_ticks, last_request_time, worker, admitted, initialized, calls,
                   steam_run, handed, twin_status, batch_manager, next_batch, run_exit, fetch,
                   fetch_outcome, fetch_paths, stop_targets, dispatch, fetched, parsed, request>>

\* return_context resumes with the cookies of the context: _save_cookies,
\* then the lock and the append of a context of the pool that is not
\* available.
return_context(c) ==
    /\ ~loop_blocked
    /\ caller[c].pos \in {"return", "return_spare"}
    /\ LET cookies == ReturnedCookies(c)
           context == caller[c].context
       IN  /\ cookies_file' = IF cookies # {} THEN cookies ELSE cookies_file
           /\ IF context_lock # 0
              THEN /\ loop_blocked' = TRUE
                   /\ UNCHANGED <<caller, available_contexts, released, returned_twice>>
              ELSE /\ available_contexts' = IF context \in Contexts
                                            THEN Append1(available_contexts, context)
                                            ELSE available_contexts
                   /\ returned_twice' = (returned_twice \/
                                           (/\ caller[c].pos = "return_spare"
                                            /\ context \in Contexts
                                            /\ context \notin Range(available_contexts)))
                   /\ caller' = [caller EXCEPT ![c] = NoCall]
                   /\ released' = released \cup cookies
                   /\ UNCHANGED loop_blocked
    /\ UNCHANGED <<use_postgresql, app_status, ccu_history, price_history, errors, checkpoint,
                   app_ids_file, source, pc, running, parser_running, app_ids, batches, batch_num,
                   uuid_cache, available_currencies, cur_idx, item_idx, todo, game_records,
                   all_records, exc, current_index, processed_set, processed_batches, ccu_results,
                   leased, history_calls, skipped, raised, dispatched, stuck, retried, conflicts,
                   cancelled, runs, itad_parser_running, itad_parser_instance, itad_thread,
                   response, context_lock, context_cookies, now, rate, tokens, last_update, wake,
                   acquired, idle_ticks, last_request_time, worker, admitted, initialized, calls,
                   steam_run, handed, twin_status, batch_manager, next_batch, run_exit, fetch,
                   fetch_outcome, fetch_paths, stop_targets, dispatch, fetched, parsed, request>>

PoolStep(c) ==
    \/ get_context(c)
    \/ get_context_cleared(c)
    \/ get_context_added(c)
    \/ return_context(c)

NextPool ==
    \/ \E c \in Callers : CallGetContext(c)
    \/ \E c \in Callers : CaptureCookie(c)
    \/ \E c \in Callers : CallReturnContext(c)
    \/ \E c \in Callers : PoolStep(c)

SpecPool == Init /\ [][NextPool]_vars

\* The pool with callers that also return contexts they do not hold.
NextPoolSpare ==
    \/ \E c \in Callers : CallGetContext(c)
    \/ \E c \in Callers : CaptureCookie(c)
    \/ \E c \in Callers : CallReturnContext(c)
    \/ \E c \in Callers : CallReturnSpare(c)
    \/ \E c \in Callers : PoolStep(c)

SpecPoolSpare == Init /\ [][NextPoolSpare]_vars

\* The event loop runs every coroutine that is ready to run.
SpecPoolLive == SpecPool /\ \A c \in Callers : WF_vars(PoolStep(c))

\* -------------------------------------------------------------- RateLimiter
\* The token bucket of steamcharts_parser. acquire() holds the asyncio lock
\* of the limiter from its first statement to its return, so the calls run
\* one after the other; asyncio.sleep(wait_time) lasts wait_time.
CeilDiv(a, b) == (a + b - 1) \div b

\* RateLimiter.__init__(rate)
RateLimiter_init ==
    /\ rate = 0
    /\ \E r \in Rates :
         /\ rate' = r
         /\ tokens' = r * TicksPerSecond
    /\ last_update' = now
    /\ UNCHANGED <<use_postgresql, app_status, ccu_history, price_history, errors, checkpoint,
                   app_ids_file, source, pc, running, parser_running, app_ids, batches, batch_num,
                   uuid_cache, available_currencies, cur_idx, item_idx, todo, game_records,
                   all_records, exc, current_index, processed_set, processed_batches, ccu_results,
                   leased, history_calls, skipped, raised, dispatched, stuck, retried, conflicts,
                   cancelled, runs, itad_parser_running, itad_parser_instance, itad_thread,
                   response, available_contexts, context_lock, cookies_file, context_cookies,
                   caller, loop_blocked, released, now, wake, acquired, idle_ticks,
                   last_request_time, worker, admitted, initialized, calls, steam_run, handed,
                   twin_status, batch_manager, next_batch, run_exit, fetch, fetch_outcome,
                   fetch_paths, returned_twice, stop_targets, dispatch, fetched, parsed, request>>

\* self.tokens = min(self.rate, self.tokens + elapsed * self.rate)
Refill(tok, elapsed, r) == Min(r * TicksPerSecond, tok + elapsed * r)

\* acquire() up to its return or to its sleep.
acquire ==
    /\ rate # 0 /\ wake = 0 /\ acquired < MaxCalls
    /\ LET filled == Refill(tokens, now - last_update, rate)
       IN  /\ last_update' = now
           /\ IF filled < TicksPerSecond
              THEN /\ wake' = now + CeilDiv(TicksPerSecond - filled, rate)
                   /\ tokens' = filled
                   /\ UNCHANGED acquired
              ELSE /\ tokens' = filled - TicksPerSecond
                   /\ acquired' = acquired + 1
                   /\ UNCHANGED wake
    /\ UNCHANGED <<use_postgresql, app_status, ccu_history, price_history, errors, checkpoint,
                   app_ids_file, source, pc, running, parser_running, app_ids, batches, batch_num,
                   uuid_cache, available_currencies, cur_idx, item_idx, todo, game_records,
                   all_records, exc, current_index, processed_set, processed_batches, ccu_results,
                   leased, history_calls, skipped, raised, dispatched, stuck, retried, conflicts,
                   cancelled, runs, itad_parser_running, itad_parser_instance, itad_thread,
                   response, available_contexts, context_lock, cookies_file, context_cookies,
                   caller, loop_blocked, released, now, rate, idle_ticks, last_request_time,
                   worker, admitted, initialized, calls, steam_run, handed, twin_status,
                   batch_manager, next_batch, run_exit, fetch, fetch_outcome, fetch_paths,
                   returned_twice, stop_targets, dispatch, fetched, parsed, request>>

\* acquire() after its sleep: the bucket is emptied and the call returns.
acquire_slept ==
    /\ wake # 0
    /\ now' = wake
    /\ wake' = 0
    /\ tokens' = 0
    /\ acquired' = acquired + 1
    /\ UNCHANGED <<use_postgresql, app_status, ccu_history, price_history, errors, checkpoint,
                   app_ids_file, source, pc, running, parser_running, app_ids, batches, batch_num,
                   uuid_cache, available_currencies, cur_idx, item_idx, todo, game_records,
                   all_records, exc, current_index, processed_set, processed_batches, ccu_results,
                   leased, history_calls, skipped, raised, dispatched, stuck, retried, conflicts,
                   cancelled, runs, itad_parser_running, itad_parser_instance, itad_thread,
                   response, available_contexts, context_lock, cookies_file, context_cookies,
                   caller, loop_blocked, released, rate, last_update, idle_ticks,
                   last_request_time, worker, admitted, initialized, calls, steam_run, handed,
                   twin_status, batch_manager, next_batch, run_exit, fetch, fetch_outcome,
                   fetch_paths, returned_twice, stop_targets, dispatch, fetched, parsed, request>>

\* Time passes between two calls.
LimiterIdle ==
    /\ rate # 0 /\ wake = 0 /\ idle_ticks < MaxIdle /\ acquired < MaxCalls
    /\ now' = now + 1
    /\ idle_ticks' = idle_ticks + 1
    /\ UNCHANGED <<use_postgresql, app_status, ccu_history, price_history, errors, checkpoint,
                   app_ids_file, source, pc, running, parser_running, app_ids, batches, batch_num,
                   uuid_cache, available_currencies, cur_idx, item_idx, todo, game_records,
                   all_records, exc, current_index, processed_set, processed_batches, ccu_results,
                   leased, history_calls, skipped, raised, dispatched, stuck, retried, conflicts,
                   cancelled, runs, itad_parser_running, itad_parser_instance, itad_thread,
                   response, available_contexts, context_lock, cookies_file, context_cookies,
                   caller, loop_blocked, released, rate, tokens, last_update, wake, acquired,
                   last_request_time, worker, admitted, initialized, calls, steam_run, handed,
                   twin_status, batch_manager, next_batch, run_exit, fetch, fetch_outcome,
                   fetch_paths, returned_twice, stop_targets, dispatch, fetched, parsed, request>>

NextLimiter == RateLimiter_init \/ acquire \/ acquire_slept \/ LimiterIdle

SpecLimiter == Init /\ [][NextLimiter]_vars

\* ------------------------------------------------- ITADAPIClient._rate_limit
\* _rate_limit as the worker threads of one client run it: the read of
\* last_request_time, the sleep and the write are separate steps of a thread.
InFlight == {w \in Workers : worker[w].pos # "idle"}

\* elapsed = time.time() - self.last_request_time, and the test.
rate_limit_enter(w) ==
    /\ worker[w].pos = "idle"
    /\ Len(admitted) + Cardinality(InFlight) < MaxRequests
    /\ LET elapsed == now - last_request_time
       IN  worker' = [worker EXCEPT ![w] =
                        IF elapsed < min_request_interval
                        THEN [pos |-> "sleep", until |-> now + (min_request_interval - elapsed)]
                        ELSE [pos |-> "stamp", until |-> 0]]
    /\ UNCHANGED <<use_postgresql, app_status, ccu_history, price_history, errors, checkpoint,
                   app_ids_file, source, pc, running, parser_running, app_ids, batches, batch_num,
                   uuid_cache, available_currencies, cur_idx, item_idx, todo, game_records,
                   all_records, exc, current_index, processed_set, processed_batches, ccu_results,
                   leased, history_calls, skipped, raised, dispatched, stuck, retried, conflicts,
                   cancelled, runs, itad_parser_running, itad_parser_instance, itad_thread,
                   response, available_contexts, context_lock, cookies_file, context_cookies,
                   caller, loop_blocked, released, now, rate, tokens, last_update, wake, acquired,
                   idle_ticks, last_request_time, admitted, initialized, calls, steam_run, handed,
                   twin_status, batch_manager, next_batch, run_exit, fetch, fetch_outcome,
                   fetch_paths, returned_twice, stop_targets, dispatch, fetched, parsed, request>>

\* time.sleep(...) is over.
rate_limit_wake(w) ==
    /\ worker[w].pos = "sleep"
    /\ now >= worker[w].until
    /\ worker' = [worker EXCEPT ![w] = [pos |-> "stamp", until |-> 0]]
    /\ UNCHANGED <<use_postgresql, app_status, ccu_history, price_history, errors, checkpoint,
                   app_ids_file, source, pc, running, parser_running, app_ids, batches, batch_num,
                   uuid_cache, available_currencies, cur_idx, item_idx, todo, game_records,
                   all_records, exc, current_index, processed_set, processed_batches, ccu_results,
                   leased, history_calls, skipped, raised, dispatched, stuck, retried, conflicts,
                   cancelled, runs, itad_parser_running, itad_parser_instance, itad_thread,
                   response, available_contexts, context_lock, cookies_file, context_cookies,
                   caller, loop_blocked, released, now, rate, tokens, last_update, wake, acquired,
                   idle_ticks, last_request_time, admitted, initialized, calls, steam_run, handed,
                   twin_status, batch_manager, next_batch, run_exit, fetch, fetch_outcome,
                   fetch_paths, returned_twice, stop_targets, dispatch, fetched, parsed, request>>

\* self.last_request_time = time.time(); the request is sent.
rate_limit_stamp(w) ==
    /\ worker[w].pos = "stamp"
    /\ last_request_time' = now
    /\ admitted' = Append(admitted, now)
    /\ worker' = [worker EXCEPT ![w] = NoWait]
    /\ UNCHANGED <<use_postgresql, app_status, ccu_history, price_history, errors, checkpoint,
                   app_ids_file, source, pc, running, parser_running, app_ids, batches, batch_num,
                   uuid_cache, available_currencies, cur_idx, item_idx, todo, game_records,
                   all_records, exc, current_index, processed_set, processed_batches, ccu_results,
                   leased, history_calls, skipped, raised, dispatched, stuck, retried, conflicts,
                   cancelled, runs, itad_parser_running, itad_parser_instance, itad_thread,
                   response, available_contexts, context_lock, cookies_file, context_cookies,
                   caller, loop_blocked, released, now, rate, tokens, last_update, wake, acquired,
                   idle_ticks, initialized, calls, steam_run, handed, twin_status, batch_manager,
                   next_batch, run_exit, fetch, fetch_outcome, fetch_paths, returned_twice,
                   stop_targets, dispatch, fetched, parsed, request>>

ClockTick ==
    /\ now < MaxTime
    /\ now' = now + 1
    /\ UNCHANGED <<use_postgresql, app_status, ccu_history, price_history, errors, checkpoint,
                   app_ids_file, source, pc, running, parser_running, app_ids, batches, batch_num,
                   uuid_cache, available_currencies, cur_idx, item_idx, todo, game_records,
                   all_records, exc, current_index, processed_set, processed_batches, ccu_results,
                   leased, history_calls, skipped, raised, dispatched, stuck, retried, conflicts,
                   cancelled, runs, itad_parser_running, itad_parser_instance, itad_thread,
                   response, available_contexts, context_lock, cookies_file, context_cookies,
                   caller, loop_blocked, released, rate, tokens, last_update, wake, acquired,
                   idle_ticks, last_request_time, worker, admitted, initialized, calls, steam_run,
                   handed, twin_status, batch_manager, next_batch, run_exit, fetch, fetch_outcome,
                   fetch_paths, returned_twice, stop_targets, dispatch, fetched, parsed, request>>

NextClient ==
    \/ \E w \in Workers : rate_limit_enter(w)
    \/ \E w \in Workers : rate_limit_wake(w)
    \/ \E w \in Workers : rate_limit_stamp(w)
    \/ ClockTick

SpecClient == Init /\ [][NextClient]_vars

\* ------------------------------------------ CheckpointManager, call by call
\* The methods of CheckpointManager applied to any item with any argument,
\* in any order.
AllSeqs(S, n) == UNION {[1..k -> S] : k \in 0..n}
Counts == 0..1
ErrorTypes == {"ccu", "price", "both"}

Called == calls < MaxSteps /\ calls' = calls + 1

CpInitialize ==
    /\ \E ids \in AllSeqs(Items, MaxIds) :
         /\ app_ids' = ids
         /\ app_status' = initialize_app_ids(app_status, ids)
         /\ initialized' = initialized_count(app_status, ids)
    /\ Called
    /\ UNCHANGED <<use_postgresql, ccu_history, price_history, errors, checkpoint, app_ids_file,
                   source, pc, running, parser_running, batches, batch_num, uuid_cache,
                   available_currencies, cur_idx, item_idx, todo, game_records, all_records, exc,
                   current_index, processed_set, processed_batches, ccu_results, leased,
                   history_calls, skipped, raised, dispatched, stuck, retried, conflicts,
                   cancelled, runs, itad_parser_running, itad_parser_instance, itad_thread,
                   response, available_contexts, context_lock, cookies_file, context_cookies,
                   caller, loop_blocked, released, now, rate, tokens, last_update, wake, acquired,
                   idle_ticks, last_request_time, worker, admitted, steam_run, handed, twin_status,
                   batch_manager, next_batch, run_exit, fetch, fetch_outcome, fetch_paths,
                   returned_twice, stop_targets, dispatch, fetched, parsed, request>>

CpMarkCcuDone(a, n) ==
    /\ app_status' = mark_ccu_done(use_postgresql, app_status, a, n)
    /\ Called
    /\ UNCHANGED <<use_postgresql, ccu_history, price_history, errors, checkpoint, app_ids_file,
                   source, pc, running, parser_running, app_ids, batches, batch_num, uuid_cache,
                   available_currencies, cur_idx, item_idx, todo, game_records, all_records, exc,
                   current_index, processed_set, processed_batches, ccu_results, leased,
                   history_calls, skipped, raised, dispatched, stuck, retried, conflicts,
                   cancelled, runs, itad_parser_running, itad_parser_instance, itad_thread,
                   response, available_contexts, context_lock, cookies_file, context_cookies,
                   caller, loop_blocked, released, now, rate, tokens, last_update, wake, acquired,
                   idle_ticks, last_request_time, worker, admitted, initialized, steam_run, handed,
                   twin_status, batch_manager, next_batch, run_exit, fetch, fetch_outcome,
                   fetch_paths, returned_twice, stop_targets, dispatch, fetched, parsed, request>>

CpMarkPriceDone(a, n) ==
    /\ app_status' = mark_price_done(use_postgresql, app_status, a, n)
    /\ Called
    /\ UNCHANGED <<use_postgresql, ccu_history, price_history, errors, checkpoint, app_ids_file,
                   source, pc, running, parser_running, app_ids, batches, batch_num, uuid_cache,
                   available_currencies, cur_idx, item_idx, todo, game_records, all_records, exc,
                   current_index, processed_set, processed_batches, ccu_results, leased,
                   history_calls, skipped, raised, dispatched, stuck, retried, conflicts,
                   cancelled, runs, itad_parser_running, itad_parser_instance, itad_thread,
                   response, available_contexts, context_lock, cookies_file, context_cookies,
                   caller, loop_blocked, released, now, rate, tokens, last_update, wake, acquired,
                   idle_ticks, last_request_time, worker, admitted, initialized, steam_run, handed,
                   twin_status, batch_manager, next_batch, run_exit, fetch, fetch_outcome,
                   fetch_paths, returned_twice, stop_targets, dispatch, fetched, parsed, request>>

CpMarkAppCompleted(a, n, m) ==
    /\ app_status' = mark_app_completed(use_postgresql, app_status, a, n, m)
    /\ Called
    /\ UNCHANGED <<use_postgresql, ccu_history, price_history, errors, checkpoint, app_ids_file,
                   source, pc, running, parser_running, app_ids, batches, batch_num, uuid_cache,
                   available_currencies, cur_idx, item_idx, todo, game_records, all_records, exc,
                   current_index, processed_set, processed_batches, ccu_results, leased,
                   history_calls, skipped, raised, dispatched, stuck, retried, conflicts,
                   cancelled, runs, itad_parser_running, itad_parser_instance, itad_thread,
                   response, available_contexts, context_lock, cookies_file, context_cookies,
                   caller, loop_blocked, released, now, rate, tokens, last_update, wake, acquired,
                   idle_ticks, last_request_time, worker, admitted, initialized, steam_run, handed,
                   twin_status, batch_manager, next_batch, run_exit, fetch, fetch_outcome,
                   fetch_paths, returned_twice, stop_targets, dispatch, fetched, parsed, request>>

CpMarkAppError(a, type) ==
    /\ LET r == mark_app_error(use_postgresql, app_status, errors, a, type,
                               Message("No data found", ""))
       IN  /\ app_status' = r.tbl
           /\ errors' = r.log
    /\ Called
    /\ UNCHANGED <<use_postgresql, ccu_history, price_history, checkpoint, app_ids_file, source,
                   pc, running, parser_running, app_ids, batches, batch_num, uuid_cache,
                   available_currencies, cur_idx, item_idx, todo, game_records, all_records, exc,
                   current_index, processed_set, processed_batches, ccu_results, leased,
                   history_calls, skipped, raised, dispatched, stuck, retried, conflicts,
                   cancelled, runs, itad_parser_running, itad_parser_instance, itad_thread,
                   response, available_contexts, context_lock, cookies_file, context_cookies,
                   caller, loop_blocked, released, now, rate, tokens, last_update, wake, acquired,
                   idle_ticks, last_request_time, worker, admitted, initialized, steam_run, handed,
                   twin_status, batch_manager, next_batch, run_exit, fetch, fetch_outcome,
                   fetch_paths, returned_twice, stop_targets, dispatch, fetched, parsed, request>>

NextCheckpoint ==
    \/ CpInitialize
    \/ \E a \in Items, n \in Counts : CpMarkCcuDone(a, n)
    \/ \E a \in Items, n \in Counts : CpMarkPriceDone(a, n)
    \/ \E a \in Items, n, m \in Counts : CpMarkAppCompleted(a, n, m)
    \/ \E a \in Items, type \in ErrorTypes : CpMarkAppError(a, type)

SpecCheckpoint == Init /\ [][NextCheckpoint]_vars

\* ------------------------------------------------ two backends side by side
\* Database.update_app_status called with any status and keyword arguments,
\* on the store of this process and on a store of the other backend.
Statuses == {"pending", "ccu_done", "price_error", "completed"}
Kwargs == {NoKw, [ccu_processed |-> 1], [price_processed |-> 1],
           [ccu_error |-> Message("No data returned", "")]}

TwinUpdate ==
    /\ \E a \in Items, st \in Statuses, kw \in Kwargs :
          /\ app_status' = update_app_status(use_postgresql, app_status, a, st, kw)
          /\ twin_status' = update_app_status(~use_postgresql, twin_status, a, st, kw)
    /\ Called
    /\ UNCHANGED <<use_postgresql, ccu_history, price_history, errors, checkpoint, app_ids_file,
                   source, pc, running, parser_running, app_ids, batches, batch_num, uuid_cache,
                   available_currencies, cur_idx, item_idx, todo, game_records, all_records, exc,
                   current_index, processed_set, processed_batches, ccu_results, leased,
                   history_calls, skipped, raised, dispatched, stuck, retried, conflicts,
                   cancelled, runs, itad_parser_running, itad_parser_instance, itad_thread,
                   response, available_contexts, context_lock, cookies_file, context_cookies,
                   caller, loop_blocked, released, now, rate, tokens, last_update, wake, acquired,
                   idle_ticks, last_request_time, worker, admitted, initialized, steam_run, handed,
                   batch_manager, next_batch, run_exit, fetch, fetch_outcome, fetch_paths,
                   returned_twice, stop_targets, dispatch, fetched, parsed, request>>

NextTwin == TwinUpdate

SpecTwin == Init /\ [][NextTwin]_vars

\* ------------------------------------------------- the time-series store alone
\* Number of distinct values a stored measurement may carry.
MaxValue == 2
\* Length of the record lists handed to one save call.
MaxLen == 2

SeqsUpTo(S, n) == UNION {[1..k -> S] : k \in 0..n}

CcuPoints == [datetime : Stamps, players : 1..MaxValue]
PricePoints ==
    {[datetime |-> t, price_final |-> v, currency_symbol |-> get_currency_symbol(c),
      currency_name |-> get_currency_name(c)] : t \in Stamps, v \in 1..MaxValue, c \in CurrencySet}
PriceRecords ==
    {[app_id |-> a, datetime |-> q.datetime, price_final |-> q.price_final,
      currency_symbol |-> q.currency_symbol, currency_name |-> q.currency_name] :
        a \in Items, q \in PricePoints}
ValueTypes == {"avg", "peak"}

\* Database.save_ccu_data called with any list for any item.
StoreSaveCcu ==
    /\ \E a \in Items, data_list \in SeqsUpTo(CcuPoints, MaxLen), value_type \in ValueTypes :
          /\ ccu_history' = save_ccu_data(ccu_history, a, data_list, value_type)
          /\ conflicts' = Noted(conflicts, "ccu",
                                ConflictsCcu(ccu_history, a, data_list, value_type))
    /\ UNCHANGED <<use_postgresql, app_status, price_history, errors, checkpoint, app_ids_file,
                   source, pc, running, parser_running, app_ids, batches, batch_num, uuid_cache,
                   available_currencies, cur_idx, item_idx, todo, game_records, all_records, exc,
                   current_index, processed_set, processed_batches, ccu_results, leased,
                   history_calls, skipped, raised, dispatched, stuck, retried, cancelled, runs,
                   itad_parser_running, itad_parser_instance, itad_thread, response,
                   available_contexts, context_lock, cookies_file, context_cookies, caller,
                   loop_blocked, released, now, rate, tokens, last_update, wake, acquired,
                   idle_ticks, last_request_time, worker, admitted, initialized, calls, steam_run,
                   handed, twin_status, batch_manager, next_batch, run_exit, fetch, fetch_outcome,
                   fetch_paths, returned_twice, stop_targets, dispatch, fetched, parsed, request>>

\* Database.save_price_data called with any list for any item.
StoreSavePrice ==
    /\ \E a \in Items, data_list \in SeqsUpTo(PricePoints, MaxLen) :
          /\ price_history' = save_price_data(price_history, a, data_list)
          /\ conflicts' = Noted(conflicts, "price",
                                ConflictsPrice(price_history, WithAppId(a, data_list)))
    /\ UNCHANGED <<use_postgresql, app_status, ccu_history, errors, checkpoint, app_ids_file,
                   source, pc, running, parser_running, app_ids, batches, batch_num, uuid_cache,
                   available_currencies, cur_idx, item_idx, todo, game_records, all_records, exc,
                   current_index, processed_set, processed_batches, ccu_results, leased,
                   history_calls, skipped, raised, dispatched, stuck, retried, cancelled, runs,
                   itad_parser_running, itad_parser_instance, itad_thread, response,
                   available_contexts, context_lock, cookies_file, context_cookies, caller,
                   loop_blocked, released, now, rate, tokens, last_update, wake, acquired,
                   idle_ticks, last_request_time, worker, admitted, initialized, calls, steam_run,
                   handed, twin_status, batch_manager, next_batch, run_exit, fetch, fetch_outcome,
                   fetch_paths, returned_twice, stop_targets, dispatch, fetched, parsed, request>>

\* Database.save_price_data_batch called with any list of records.
StoreSavePriceBatch ==
    /\ \E records \in SeqsUpTo(PriceRecords, MaxLen) :
          /\ price_history' = save_price_data_batch(price_history, records)
          /\ conflicts' = Noted(conflicts, "price", ConflictsPrice(price_history, records))
    /\ UNCHANGED <<use_postgresql, app_status, ccu_history, errors, checkpoint, app_ids_file,
                   source, pc, running, parser_running, app_ids, batches, batch_num, uuid_cache,
                   available_currencies, cur_idx, item_idx, todo, game_records, all_records, exc,
                   current_index, processed_set, processed_batches, ccu_results, leased,
                   history_calls, skipped, raised, dispatched, stuck, retried, cancelled, runs,
                   itad_parser_running, itad_parser_instance, itad_thread, response,
                   available_contexts, context_lock, cookies_file, context_cookies, caller,
                   loop_blocked, released, now, rate, tokens, last_update, wake, acquired,
                   idle_ticks, last_request_time, worker, admitted, initialized, calls, steam_run,
                   handed, twin_status, batch_manager, next_batch, run_exit, fetch, fetch_outcome,
                   fetch_paths, returned_twice, stop_targets, dispatch, fetched, parsed, request>>

NextStore == StoreSaveCcu \/ StoreSavePrice \/ StoreSavePriceBatch

SpecStore == Init /\ [][NextStore]_vars

\* ------------------------------------------------------ BatchManager alone
\* BatchManager(app_ids, n) for any list (an ID may occur twice) and any
\* size; n = 0 stands for an omitted or zero argument, which __init__
\* replaces by config.COMPARE_BATCH_SIZE.
BatchManager_init ==
    /\ \E ids \in AllSeqs(Items, MaxListLen), n \in 0..MaxBatchSize :
          LET batch_size == IF n = 0 THEN COMPARE_BATCH_SIZE ELSE n
          IN batch_manager' = [n |-> n, app_ids |-> ids, batch_size |-> batch_size,
                               batches |-> CreateBatches(ids, batch_size)]
    /\ UNCHANGED <<use_postgresql, app_status, ccu_history, price_history, errors, checkpoint,
                   app_ids_file, source, pc, running, parser_running, app_ids, batches, batch_num,
                   uuid_cache, available_currencies, cur_idx, item_idx, todo, game_records,
                   all_records, exc, current_index, processed_set, processed_batches, ccu_results,
                   leased, history_calls, skipped, raised, dispatched, stuck, retried, conflicts,
                   cancelled, runs, itad_parser_running, itad_parser_instance, itad_thread,
                   response, available_contexts, context_lock, cookies_file, context_cookies,
                   caller, loop_blocked, released, now, rate, tokens, last_update, wake, acquired,
                   idle_ticks, last_request_time, worker, admitted, initialized, calls, steam_run,
                   handed, twin_status, next_batch, run_exit, fetch, fetch_outcome, fetch_paths,
                   returned_twice, stop_targets, dispatch, fetched, parsed, request>>

NextBatch == BatchManager_init

SpecBatch == Init /\ [][NextBatch]_vars

\* The methods of one BatchManager called in any order.
BmInit ==
    /\ batches = <<>>
    /\ \E ids \in AllSeqs(Items, MaxListLen), n \in 1..MaxBatchSize :
          batches' = CreateBatches(ids, n)
    /\ current_index' = 0
    /\ processed_set' = {}
    /\ UNCHANGED <<use_postgresql, app_status, ccu_history, price_history, errors, checkpoint,
                   app_ids_file, source, pc, running, parser_running, app_ids, batch_num,
                   uuid_cache, available_currencies, cur_idx, item_idx, todo, game_records,
                   all_records, exc, processed_batches, ccu_results, leased, history_calls,
                   skipped, raised, dispatched, stuck, retried, conflicts, cancelled, runs,
                   itad_parser_running, itad_parser_instance, itad_thread, response,
                   available_contexts, context_lock, cookies_file, context_cookies, caller,
                   loop_blocked, released, now, rate, tokens, last_update, wake, acquired,
                   idle_ticks, last_request_time, worker, admitted, initialized, calls, steam_run,
                   handed, twin_status, batch_manager, next_batch, run_exit, fetch, fetch_outcome,
                   fetch_paths, returned_twice, stop_targets, dispatch, fetched, parsed, request>>

BmGetNextBatch ==
    /\ batches # <<>>
    /\ LET r == get_next_batch(batches, processed_set, current_index)
       IN /\ current_index' = r.current_index
          /\ next_batch' = r.idx
    /\ UNCHANGED <<use_postgresql, app_status, ccu_history, price_history, errors, checkpoint,
                   app_ids_file, source, pc, running, parser_running, app_ids, batches, batch_num,
                   uuid_cache, available_currencies, cur_idx, item_idx, todo, game_records,
                   all_records, exc, processed_set, processed_batches, ccu_results, leased,
                   history_calls, skipped, raised, dispatched, stuck, retried, conflicts,
                   cancelled, runs, itad_parser_running, itad_parser_instance, itad_thread,
                   response, available_contexts, context_lock, cookies_file, context_cookies,
                   caller, loop_blocked, released, now, rate, tokens, last_update, wake, acquired,
                   idle_ticks, last_request_time, worker, admitted, initialized, calls, steam_run,
                   handed, twin_status, batch_manager, run_exit, fetch, fetch_outcome, fetch_paths,
                   returned_twice, stop_targets, dispatch, fetched, parsed, request>>

BmMarkBatchProcessed ==
    /\ \E k \in 1..Len(batches) :
          processed_set' = mark_batch_processed(processed_set, batches[k])
    /\ UNCHANGED <<use_postgresql, app_status, ccu_history, price_history, errors, checkpoint,
                   app_ids_file, source, pc, running, parser_running, app_ids, batches, batch_num,
                   uuid_cache, available_currencies, cur_idx, item_idx, todo, game_records,
                   all_records, exc, current_index, processed_batches, ccu_results, leased,
                   history_calls, skipped, raised, dispatched, stuck, retried, conflicts,
                   cancelled, runs, itad_parser_running, itad_parser_instance, itad_thread,
                   response, available_contexts, context_lock, cookies_file, context_cookies,
                   caller, loop_blocked, released, now, rate, tokens, last_update, wake, acquired,
                   idle_ticks, last_request_time, worker, admitted, initialized, calls, steam_run,
                   handed, twin_status, batch_manager, next_batch, run_exit, fetch, fetch_outcome,
                   fetch_paths, returned_twice, stop_targets, dispatch, fetched, parsed, request>>

NextManager == BmInit \/ BmGetNextBatch \/ BmMarkBatchProcessed

SpecManager == Init /\ [][NextManager]_vars

\* ------------------------------------------------------------ CCU fetchers
\* A JSON body of the graph API: something that is not a list, a list of
\* data points, or a list holding a point whose players value int() rejects.
Body(kind, points) == [kind |-> kind, points |-> points]
Bodies == {Body("not_a_list", <<>>), Body("bad_point", <<>>)} \cup {Body("list", p) : p \in CcuResponses}
NoResponse == Body("none", <<>>)

\* What a parsing step gives: a value, or an exception.
Parsed(value) == [raised |-> FALSE, value |-> value]
Raises == [raised |-> TRUE, value |-> <<>>]

\* CCUParser._parse_api_response.
parse_api_response(data) ==
    IF data.kind = "list" THEN Parsed(data.points)
    ELSE IF data.kind = "bad_point" THEN Raises
    ELSE Parsed(<<>>)

\* CCUParser._fetch_api_data: the three methods in turn; each returns what
\* it parsed, and a method without response or whose parsing raises gives
\* way to the next one.
RECURSIVE fetch_api_data(_)
fetch_api_data(methods) ==
    IF methods = <<>> THEN <<>>
    ELSE IF Head(methods).kind = "none" THEN fetch_api_data(Tail(methods))
    ELSE LET p == parse_api_response(Head(methods))
         IN IF p.raised THEN fetch_api_data(Tail(methods)) ELSE p.value

\* Variant: the handler of parse_ccu_batch returns an empty map.
parse_ccu_batch_except_Empty(batch) == NoMap

\* except Exception of parse_ccu_batch: empty results for all APP IDs.
parse_ccu_batch_except(batch) == [a \in Range(batch) |-> <<>>]

\* The paths of a fetcher call that are followed over the calls.
ObservedPaths == {"interception", "fallback", "exception",
                  "not_found", "non_200", "timeout", "throttled"}

\* A fetcher call returns: its result and the paths it took are recorded.
Return(f, results, path) ==
    /\ fetch' = [f EXCEPT !.pos = "returned", !.results = results, !.path = f.path \cup path]
    /\ fetch_paths' = fetch_paths \cup ((f.path \cup path) \cap ObservedPaths)

FetchIdle == fetch.pos \in {"idle", "returned"}

\* parse_ccu_batch up to the end of the navigation: the page is created, the
\* interceptor collects the responses of the graph API (for any ID), or
\* new_page / goto raises.
parse_ccu_batch ==
    /\ FetchIdle
    /\ \E batch \in AllSeqs(Items, COMPARE_BATCH_SIZE), page_ok \in BOOLEAN,
          responses \in UNION {[S -> Bodies] : S \in SUBSET Items} :
          LET f == [NoFetch EXCEPT !.fetcher = "parse_ccu_batch", !.batch = batch]
          IN IF batch = <<>> THEN Return(f, NoMap, {"empty"})
             ELSE IF ~page_ok THEN Return(f, parse_ccu_batch_except(batch), {"exception"})
             ELSE /\ fetch' = [f EXCEPT !.pos = "items", !.api_responses = responses, !.idx = 1]
                  /\ UNCHANGED fetch_paths
    /\ UNCHANGED <<use_postgresql, app_status, ccu_history, price_history, errors, checkpoint,
                   app_ids_file, source, pc, running, parser_running, app_ids, batches, batch_num,
                   uuid_cache, available_currencies, cur_idx, item_idx, todo, game_records,
                   all_records, exc, current_index, processed_set, processed_batches, ccu_results,
                   leased, history_calls, skipped, raised, dispatched, stuck, retried, conflicts,
                   cancelled, runs, itad_parser_running, itad_parser_instance, itad_thread,
                   response, available_contexts, context_lock, cookies_file, context_cookies,
                   caller, loop_blocked, released, now, rate, tokens, last_update, wake, acquired,
                   idle_ticks, last_request_time, worker, admitted, initialized, calls, steam_run,
                   handed, twin_status, batch_manager, next_batch, run_exit, fetch_outcome,
                   returned_twice, stop_targets, dispatch, fetched, parsed, request>>

\* for app_id in app_ids: the intercepted response, or the fallback.
parse_ccu_batch_item ==
    /\ fetch.fetcher = "parse_ccu_batch" /\ fetch.pos = "items"
    /\ fetch.idx <= Len(fetch.batch)
    /\ LET a == fetch.batch[fetch.idx]
       IN IF a \in DOMAIN fetch.api_responses
          THEN LET p == parse_api_response(fetch.api_responses[a])
               IN IF p.raised
                  THEN Return(fetch, parse_ccu_batch_except(fetch.batch), {"exception"})
                  ELSE /\ fetch' = [fetch EXCEPT !.results = (a :> p.value) @@ @,
                                                 !.idx = @ + 1,
                                                 !.path = @ \cup {"interception"}]
                       /\ UNCHANGED fetch_paths
          ELSE /\ \E methods \in [1..3 -> Bodies \cup {NoResponse}] :
                     fetch' = [fetch EXCEPT !.results = (a :> fetch_api_data(methods)) @@ @,
                                            !.idx = @ + 1,
                                            !.path = @ \cup {"fallback"}]
               /\ UNCHANGED fetch_paths
    /\ UNCHANGED <<use_postgresql, app_status, ccu_history, price_history, errors, checkpoint,
                   app_ids_file, source, pc, running, parser_running, app_ids, batches, batch_num,
                   uuid_cache, available_currencies, cur_idx, item_idx, todo, game_records,
                   all_records, exc, current_index, processed_set, processed_batches, ccu_results,
                   leased, history_calls, skipped, raised, dispatched, stuck, retried, conflicts,
                   cancelled, runs, itad_parser_running, itad_parser_instance, itad_thread,
                   response, available_contexts, context_lock, cookies_file, context_cookies,
                   caller, loop_blocked, released, now, rate, tokens, last_update, wake, acquired,
                   idle_ticks, last_request_time, worker, admitted, initialized, calls, steam_run,
                   handed, twin_status, batch_manager, next_batch, run_exit, fetch_outcome,
                   returned_twice, stop_targets, dispatch, fetched, parsed, request>>

\* return results, through finally: page.close(), which may raise.
parse_ccu_batch_return ==
    /\ fetch.fetcher = "parse_ccu_batch" /\ fetch.pos = "items"
    /\ fetch.idx > Len(fetch.batch)
    /\ \E close_ok \in BOOLEAN :
          IF close_ok THEN Return(fetch, fetch.results, {})
          ELSE Return(fetch, parse_ccu_batch_except(fetch.batch), {"exception"})
    /\ UNCHANGED <<use_postgresql, app_status, ccu_history, price_history, errors, checkpoint,
                   app_ids_file, source, pc, running, parser_running, app_ids, batches, batch_num,
                   uuid_cache, available_currencies, cur_idx, item_idx, todo, game_records,
                   all_records, exc, current_index, processed_set, processed_batches, ccu_results,
                   leased, history_calls, skipped, raised, dispatched, stuck, retried, conflicts,
                   cancelled, runs, itad_parser_running, itad_parser_instance, itad_thread,
                   response, available_contexts, context_lock, cookies_file, context_cookies,
                   caller, loop_blocked, released, now, rate, tokens, last_update, wake, acquired,
                   idle_ticks, last_request_time, worker, admitted, initialized, calls, steam_run,
                   handed, twin_status, batch_manager, next_batch, run_exit, fetch_outcome,
                   returned_twice, stop_targets, dispatch, fetched, parsed, request>>

\* Outcomes of one GET of the chart data.
Failures == {"404", "429", "500", "bad_json", "timeout", "client_error", "error"}
Outcomes == {Body(k, <<>>) : k \in Failures} \cup Bodies

\* SteamChartsParser._process_raw_data: the points of a list; a point that
\* is no sequence makes len() raise.
process_raw_data(data) == IF data.kind = "bad_point" THEN Raises ELSE Parsed(data.points)

\* What fetch_ccu_data returns for the raw data _fetch_api gave it.
fetch_ccu_data_result(raw) ==
    IF raw.kind # "list" \/ raw.points = <<>> THEN [avg |-> <<>>]
    ELSE [avg |-> process_raw_data(raw).value]

\* SteamChartsParser.fetch_ccu_data, entered (semaphore and limiter passed).
fetch_ccu_data ==
    /\ FetchIdle
    /\ \E a \in Items :
          fetch' = [NoFetch EXCEPT !.fetcher = "fetch_ccu_data", !.batch = <<a>>, !.pos = "attempt"]
    /\ UNCHANGED fetch_paths
    /\ UNCHANGED <<use_postgresql, app_status, ccu_history, price_history, errors, checkpoint,
                   app_ids_file, source, pc, running, parser_running, app_ids, batches, batch_num,
                   uuid_cache, available_currencies, cur_idx, item_idx, todo, game_records,
                   all_records, exc, current_index, processed_set, processed_batches, ccu_results,
                   leased, history_calls, skipped, raised, dispatched, stuck, retried, conflicts,
                   cancelled, runs, itad_parser_running, itad_parser_instance, itad_thread,
                   response, available_contexts, context_lock, cookies_file, context_cookies,
                   caller, loop_blocked, released, now, rate, tokens, last_update, wake, acquired,
                   idle_ticks, last_request_time, worker, admitted, initialized, calls, steam_run,
                   handed, twin_status, batch_manager, next_batch, run_exit, fetch_outcome,
                   returned_twice, stop_targets, dispatch, fetched, parsed, request>>

\* One pass of the for loop of _fetch_api, and the return of fetch_ccu_data
\* when the pass ends the loop.
fetch_api ==
    /\ fetch.fetcher = "fetch_ccu_data" /\ fetch.pos = "attempt"
    /\ \E outcome \in Outcomes :
          LET last == fetch.idx = STEAMCHARTS_RETRY_ATTEMPTS - 1
              again == /\ fetch' = [fetch EXCEPT !.idx = @ + 1]
                       /\ UNCHANGED fetch_paths
          IN IF outcome \in Bodies
             THEN IF outcome.kind = "not_a_list"
                  THEN Return(fetch, [avg |-> <<>>], {"invalid"})
                  ELSE Return(fetch, fetch_ccu_data_result(outcome),
                              IF outcome.kind = "bad_point" THEN {"invalid"} ELSE {"ok"})
             ELSE IF outcome.kind = "404" THEN Return(fetch, [avg |-> <<>>], {"not_found"})
             ELSE IF outcome.kind = "429"
             THEN IF last THEN Return(fetch, [avg |-> <<>>], {"throttled"}) ELSE again
             ELSE IF outcome.kind = "500"
             THEN IF last THEN Return(fetch, [avg |-> <<>>], {"non_200"}) ELSE again
             ELSE IF outcome.kind = "timeout"
             THEN IF last THEN Return(fetch, [avg |-> <<>>], {"timeout"}) ELSE again
             ELSE IF outcome.kind \in {"bad_json", "client_error"}
             THEN IF last THEN Return(fetch, [avg |-> <<>>], {"invalid"}) ELSE again
             ELSE Return(fetch, [avg |-> <<>>], {"invalid"})
    /\ UNCHANGED <<use_postgresql, app_status, ccu_history, price_history, errors, checkpoint,
                   app_ids_file, source, pc, running, parser_running, app_ids, batches, batch_num,
                   uuid_cache, available_currencies, cur_idx, item_idx, todo, game_records,
                   all_records, exc, current_index, processed_set, processed_batches, ccu_results,
                   leased, history_calls, skipped, raised, dispatched, stuck, retried, conflicts,
                   cancelled, runs, itad_parser_running, itad_parser_instance, itad_thread,
                   response, available_contexts, context_lock, cookies_file, context_cookies,
                   caller, loop_blocked, released, now, rate, tokens, last_update, wake, acquired,
                   idle_ticks, last_request_time, worker, admitted, initialized, calls, steam_run,
                   handed, twin_status, batch_manager, next_batch, run_exit, fetch_outcome,
                   returned_twice, stop_targets, dispatch, fetched, parsed, request>>

\* process_batch_async, steamcharts, for the item whose fetch has returned:
\* the data is saved and mark_ccu_done called, or mark_app_error when the
\* result is empty.
ScProcessItem ==
    /\ fetch.fetcher = "fetch_ccu_data" /\ fetch.pos = "returned"
    /\ LET a == fetch.batch[1]
           avg_data == fetch.results.avg
       IN /\ ccu_history' = save_ccu_data(ccu_history, a, avg_data, "avg")
          /\ IF Len(avg_data) > 0
             THEN /\ app_status' = mark_ccu_done(use_postgresql, app_status, a, Len(avg_data))
                  /\ UNCHANGED errors
             ELSE LET r == mark_app_error(use_postgresql, app_status, errors, a,
                                          "ccu", Message("No data returned", ""))
                  IN /\ app_status' = r.tbl
                     /\ errors' = r.log
          /\ fetch_outcome' = [fetch_outcome EXCEPT ![a] = fetch.path]
    /\ fetch' = NoFetch
    /\ UNCHANGED <<use_postgresql, price_history, checkpoint, app_ids_file, source, pc, running,
                   parser_running, app_ids, batches, batch_num, uuid_cache, available_currencies,
                   cur_idx, item_idx, todo, game_records, all_records, exc, current_index,
                   processed_set, processed_batches, ccu_results, leased, history_calls, skipped,
                   raised, dispatched, stuck, retried, conflicts, cancelled, runs,
                   itad_parser_running, itad_parser_instance, itad_thread, response,
                   available_contexts, context_lock, cookies_file, context_cookies, caller,
                   loop_blocked, released, now, rate, tokens, last_update, wake, acquired,
                   idle_ticks, last_request_time, worker, admitted, initialized, calls, steam_run,
                   handed, twin_status, batch_manager, next_batch, run_exit, fetch_paths,
                   returned_twice, stop_targets, dispatch, fetched, parsed, request>>

NextItem == fetch_ccu_data \/ fetch_api \/ ScProcessItem

SpecItem == Init /\ [][NextItem]_vars

\* ------------------------------------- fetch_currency_history, the loop
\* Amounts of the prices of a response, and the time stamps of its entries.
Amounts == 1..2
MaxEntries == 2
EntryStamps == 1..MaxEntries

\* The entries of a response: the currency of the price is one of the
\* supported ones or absent ('' is what price_obj.get('currency', '') gives).
HistoryEntries ==
    {HistoryEntry(t, c, m) : t \in EntryStamps, c \in CurrencySet \cup {""}, m \in Amounts}

\* The responses of get_price_history: up to MaxEntries entries, each with a
\* time stamp of its own.
HistoryData ==
    {d \in AllSeqs(HistoryEntries, MaxEntries) :
        \A i, j \in 1..Len(d) : i # j => d[i].timestamp # d[j].timestamp}

\* for entry in history_data: record = self._parse_history_entry(...);
\* if record: records.append(record)
ParseHistoryLoop ==
    /\ \E data \in HistoryData, c \in CurrencySet, a \in Items :
          parsed' = [called |-> TRUE, data |-> data, currency |-> c,
                     records |-> ParseHistory(data, a, c)]
    /\ UNCHANGED <<use_postgresql, app_status, ccu_history, price_history, errors, checkpoint,
                   app_ids_file, source, pc, running, parser_running, app_ids, batches, batch_num,
                   uuid_cache, available_currencies, cur_idx, item_idx, todo, game_records,
                   all_records, exc, current_index, processed_set, processed_batches, ccu_results,
                   leased, history_calls, skipped, raised, dispatched, stuck, retried, conflicts,
                   cancelled, runs, itad_parser_running, itad_parser_instance, itad_thread,
                   response, available_contexts, context_lock, cookies_file, context_cookies,
                   caller, loop_blocked, released, now, rate, tokens, last_update, wake, acquired,
                   idle_ticks, last_request_time, worker, admitted, initialized, calls, steam_run,
                   handed, twin_status, batch_manager, next_batch, run_exit, fetch, fetch_outcome,
                   fetch_paths, returned_twice, stop_targets, dispatch, fetched, request>>

NextHistory == ParseHistoryLoop

SpecHistory == Init /\ [][NextHistory]_vars

\* --------------------------------------- Stage 2 and the save of its rows
\* Currencies of SUPPORTED_CURRENCIES (its entries 1, 2 and 15).
SymbolCurrencies == {"USD", "EUR", "MXN"}

\* The confirmed currencies of an item, in the order their futures complete.
ConfirmedOrders ==
    {cs \in AllSeqs(SymbolCurrencies, 2) : \A i, j \in 1..Len(cs) : i # j => cs[i] # cs[j]}

RECURSIVE HistoryForCurrencies(_, _, _)
HistoryForCurrencies(a, cs, ts) ==
    IF cs = <<>> THEN <<>>
    ELSE ParseHistory(<<HistoryEntry(Head(ts), Head(cs), 1)>>, a, Head(cs))
            \o HistoryForCurrencies(a, Tail(cs), Tail(ts))

\* _fetch_history_for_currencies for one item, each confirmed currency
\* answering with one entry in that currency, and save_price_data_batch of
\* the records.
FetchHistoryForCurrencies ==
    /\ \E a \in Items, cs \in ConfirmedOrders :
         \E ts \in [1..Len(cs) -> EntryStamps] :
            /\ price_history' = save_price_data_batch(price_history, HistoryForCurrencies(a, cs, ts))
            /\ fetched' = fetched \cup {[app_id |-> a, datetime |-> ts[k], currency |-> cs[k]] :
                                           k \in 1..Len(cs)}
    /\ UNCHANGED <<use_postgresql, app_status, ccu_history, errors, checkpoint, app_ids_file,
                   source, pc, running, parser_running, app_ids, batches, batch_num, uuid_cache,
                   available_currencies, cur_idx, item_idx, todo, game_records, all_records, exc,
                   current_index, processed_set, processed_batches, ccu_results, leased,
                   history_calls, skipped, raised, dispatched, stuck, retried, conflicts,
                   cancelled, runs, itad_parser_running, itad_parser_instance, itad_thread,
                   response, available_contexts, context_lock, cookies_file, context_cookies,
                   caller, loop_blocked, released, now, rate, tokens, last_update, wake, acquired,
                   idle_ticks, last_request_time, worker, admitted, initialized, calls, steam_run,
                   handed, twin_status, batch_manager, next_batch, run_exit, fetch, fetch_outcome,
                   fetch_paths, returned_twice, stop_targets, dispatch, parsed, request>>

NextSymbols == FetchHistoryForCurrencies

SpecSymbols == Init /\ [][NextSymbols]_vars

\* ------------------------------------------ run_async, the dispatch loop
\* The loop over the batches alone: process_batch_async returns or raises.
\* MaxDispatch caps the passes counted, one above the number of batches
\* MaxPending IDs can make.
MaxPending == 3
MaxDispatch == 4

\* get_pending_app_ids gives each pending ID once.
PendingLists ==
    {ids \in AllSeqs(1..MaxPending, MaxPending) :
        ids # <<>> /\ \A i, j \in 1..Len(ids) : i # j => ids[i] # ids[j]}

\* batch_manager = BatchManager(pending_app_ids, batch_size)
DispatchPlan ==
    /\ dispatch.pos = "idle"
    /\ \E ids \in PendingLists, size \in {1, COMPARE_BATCH_SIZE} :
          batches' = CreateBatches(ids, size)
    /\ current_index' = 0
    /\ processed_set' = {}
    /\ running' = TRUE
    /\ dispatch' = [NoDispatch EXCEPT !.pos = "loop"]
    /\ UNCHANGED <<use_postgresql, app_status, ccu_history, price_history, errors, checkpoint,
                   app_ids_file, source, pc, parser_running, app_ids, batch_num, uuid_cache,
                   available_currencies, cur_idx, item_idx, todo, game_records, all_records, exc,
                   processed_batches, ccu_results, leased, history_calls, skipped, raised,
                   dispatched, stuck, retried, conflicts, cancelled, runs, itad_parser_running,
                   itad_parser_instance, itad_thread, response, available_contexts, context_lock,
                   cookies_file, context_cookies, caller, loop_blocked, released, now, rate,
                   tokens, last_update, wake, acquired, idle_ticks, last_request_time, worker,
                   admitted, initialized, calls, steam_run, handed, twin_status, batch_manager,
                   next_batch, run_exit, fetch, fetch_outcome, fetch_paths, returned_twice,
                   stop_targets, fetched, parsed, request>>

\* One pass of "while batch_manager.has_pending_batches() and self.running":
\* get_next_batch, the break on None, process_batch_async and
\* mark_batch_processed, or the except clause when the batch raises.
DispatchIteration ==
    /\ dispatch.pos = "loop"
    /\ dispatch.iterations < MaxDispatch
    /\ IF has_pending_batches(batches, processed_set) /\ running
       THEN LET r == get_next_batch(batches, processed_set, current_index)
            IN /\ current_index' = r.current_index
               /\ IF r.idx = 0
                  THEN /\ dispatch' = [dispatch EXCEPT !.pos = "done"]
                       /\ UNCHANGED processed_set
                  ELSE /\ dispatch' = [dispatch EXCEPT !.iterations = @ + 1,
                                                       !.returned = Append(@, r.idx)]
                       /\ \E raises \in BOOLEAN :
                            processed_set' = IF raises THEN processed_set
                                             ELSE mark_batch_processed(processed_set, batches[r.idx])
       ELSE /\ dispatch' = [dispatch EXCEPT !.pos = "done"]
            /\ UNCHANGED <<current_index, processed_set>>
    /\ UNCHANGED <<use_postgresql, app_status, ccu_history, price_history, errors, checkpoint,
                   app_ids_file, source, pc, running, parser_running, app_ids, batches, batch_num,
                   uuid_cache, available_currencies, cur_idx, item_idx, todo, game_records,
                   all_records, exc, processed_batches, ccu_results, leased, history_calls,
                   skipped, raised, dispatched, stuck, retried, conflicts, cancelled, runs,
                   itad_parser_running, itad_parser_instance, itad_thread, response,
                   available_contexts, context_lock, cookies_file, context_cookies, caller,
                   loop_blocked, released, now, rate, tokens, last_update, wake, acquired,
                   idle_ticks, last_request_time, worker, admitted, initialized, calls, steam_run,
                   handed, twin_status, batch_manager, next_batch, run_exit, fetch, fetch_outcome,
                   fetch_paths, returned_twice, stop_targets, fetched, parsed, request>>

\* _signal_handler while the loop runs.
DispatchStop ==
    /\ dispatch.pos = "loop" /\ running
    /\ running' = FALSE
    /\ UNCHANGED <<use_postgresql, app_status, ccu_history, price_history, errors, checkpoint,
                   app_ids_file, source, pc, parser_running, app_ids, batches, batch_num,
                   uuid_cache, available_currencies, cur_idx, item_idx, todo, game_records,
                   all_records, exc, current_index, processed_set, processed_batches, ccu_results,
                   leased, history_calls, skipped, raised, dispatched, stuck, retried, conflicts,
                   cancelled, runs, itad_parser_running, itad_parser_instance, itad_thread,
                   response, available_contexts, context_lock, cookies_file, context_cookies,
                   caller, loop_blocked, released, now, rate, tokens, last_update, wake, acquired,
                   idle_ticks, last_request_time, worker, admitted, initialized, calls, steam_run,
                   handed, twin_status, batch_manager, next_batch, run_exit, fetch, fetch_outcome,
                   fetch_paths, returned_twice, stop_targets, dispatch, fetched, parsed, request>>

NextDispatch == DispatchPlan \/ DispatchIteration \/ DispatchStop

SpecDispatch == Init /\ [][NextDispatch]_vars

\* The event loop runs the coroutine of run_async.
SpecDispatchLive == SpecDispatch /\ WF_vars(DispatchIteration)

\* ------------------------------------------------- ITADAPIClient._request
\* max_retries: the default of the parameter of _request.
max_retries == 3

\* The Retry-After header of a response: absent, a number of seconds, or an
\* HTTP date.
RetryAfter == {"absent", "seconds", "http_date"}

\* What the server answers to one request, or the exception requests raises.
Answers ==
    {[status |-> "429", retry_after |-> r] : r \in RetryAfter}
        \cup {[status |-> k, retry_after |-> "absent"] : k \in {"200", "500", "connection_error"}}

\* int(response.headers.get('Retry-After', 60)): the default and a number of
\* seconds convert, an HTTP date makes int() raise ValueError.
IntRetryAfter(r) == IF r = "http_date" THEN "ValueError" ELSE ""

\* _request is called.
ItadRequestCall ==
    /\ request.pos \in {"idle", "returned", "raised"}
    /\ request' = [NoRequest EXCEPT !.pos = "attempt"]
    /\ UNCHANGED <<use_postgresql, app_status, ccu_history, price_history, errors, checkpoint,
                   app_ids_file, source, pc, running, parser_running, app_ids, batches, batch_num,
                   uuid_cache, available_currencies, cur_idx, item_idx, todo, game_records,
                   all_records, exc, current_index, processed_set, processed_batches, ccu_results,
                   leased, history_calls, skipped, raised, dispatched, stuck, retried, conflicts,
                   cancelled, runs, itad_parser_running, itad_parser_instance, itad_thread,
                   response, available_contexts, context_lock, cookies_file, context_cookies,
                   caller, loop_blocked, released, now, rate, tokens, last_update, wake, acquired,
                   idle_ticks, last_request_time, worker, admitted, initialized, calls, steam_run,
                   handed, twin_status, batch_manager, next_batch, run_exit, fetch, fetch_outcome,
                   fetch_paths, returned_twice, stop_targets, dispatch, fetched, parsed>>

\* One pass of the for loop of _request: _rate_limit, the request, and the
\* handling of the answer. A 429 sleeps and continues; the loop ends after
\* max_retries passes with None. A ValueError is caught by neither except
\* clause and leaves _request.
ItadRequestAttempt ==
    /\ request.pos = "attempt"
    /\ last_request_time' = now
    /\ \E ans \in Answers :
          LET sent == [request EXCEPT !.sent = @ + 1,
                                      !.only_429 = @ /\ ans.status = "429"]
          IN IF ans.status = "429"
             THEN IF IntRetryAfter(ans.retry_after) # ""
                  THEN request' = [sent EXCEPT !.pos = "raised",
                                               !.raised = IntRetryAfter(ans.retry_after)]
                  ELSE IF request.attempt + 1 < max_retries
                  THEN request' = [sent EXCEPT !.attempt = @ + 1]
                  ELSE request' = [sent EXCEPT !.pos = "returned", !.result = "None"]
             ELSE IF ans.status = "200"
             THEN request' = [sent EXCEPT !.pos = "returned", !.result = "json"]
             ELSE request' = [sent EXCEPT !.pos = "returned", !.result = "None"]
    /\ UNCHANGED <<use_postgresql, app_status, ccu_history, price_history, errors, checkpoint,
                   app_ids_file, source, pc, running, parser_running, app_ids, batches, batch_num,
                   uuid_cache, available_currencies, cur_idx, item_idx, todo, game_records,
                   all_records, exc, current_index, processed_set, processed_batches, ccu_results,
                   leased, history_calls, skipped, raised, dispatched, stuck, retried, conflicts,
                   cancelled, runs, itad_parser_running, itad_parser_instance, itad_thread,
                   response, available_contexts, context_lock, cookies_file, context_cookies,
                   caller, loop_blocked, released, now, rate, tokens, last_update, wake, acquired,
                   idle_ticks, worker, admitted, initialized, calls, steam_run, handed,
                   twin_status, batch_manager, next_batch, run_exit, fetch, fetch_outcome,
                   fetch_paths, returned_twice, stop_targets, dispatch, fetched, parsed>>

NextRetry == fetch_ccu_data \/ fetch_api \/ ItadRequestCall \/ ItadRequestAttempt

SpecRetry == Init /\ [][NextRetry]_vars


NextFetch ==
    \/ parse_ccu_batch
    \/ parse_ccu_batch_item
    \/ parse_ccu_batch_return
    \/ fetch_ccu_data
    \/ fetch_api

SpecFetch == Init /\ [][NextFetch]_vars

\* ============================================================== properties
DispatchedItems == UNION {Range(batches[k]) : k \in dispatched}

\* C1: when ITADParserMain.run has returned without having been cancelled,
\* every item of a batch it dispatched is completed or in error; none is left
\* processing.
C1_ReturnedRunSettled ==
    (source = "itad" /\ pc = "done" /\ ~cancelled) =>
        \A a \in DispatchedItems : app_status[a].status \in {"itad_completed", "itad_error"}

\* The handler of the exception batch k raised has run.
Handled(k) == k \in DOMAIN raised /\ ~(k = batch_num /\ pc \in {"except", "db_except"})

FailedItemMarked(a, e) ==
    IF source = "itad"
    THEN /\ app_status[a].status = "itad_error"
         /\ app_status[a].itad_error = Message("Batch processing error: ", e)
    ELSE /\ app_status[a].status = "ccu_error"
         /\ app_status[a].ccu_error.exc = e

Occurrences(a) ==
    Cardinality({ki \in (DOMAIN batches) \X Items :
                    ki[2] <= Len(batches[ki[1]]) /\ batches[ki[1]][ki[2]] = a})

\* C3: the rows a killed run left processing are reset before the next
\* ITADParserMain.run plans (no row is processing when it plans), and the plan
\* holds each of them in exactly one batch.
C3_StuckItemsReplanned ==
    source = "itad" =>
        /\ pc = "plan" => \A a \in Items : app_status[a].status # "itad_processing"
        /\ (pc = "loop" /\ dispatched = {}) =>
              \A a \in stuck \cap Range(app_ids) : Occurrences(a) = 1

C3_Witness ==
    source = "itad" /\ pc = "loop" /\ dispatched = {} /\ stuck # {} /\ Len(batches) > 1

\* C4: an item whose stored status says its stage is done has records of that
\* stage in the store.
C4_CompletedMeansStored ==
    \A a \in Items :
        /\ app_status[a].status = "itad_completed" => \E r \in price_history : r.app_id = a
        /\ app_status[a].status = "ccu_done" => \E r \in ccu_history : r.app_id = a

UniqueCcuKeys(tbl) == \A r, s \in tbl : CcuKey(r) = CcuKey(s) => r = s
UniquePriceKeys(tbl) == \A r, s \in tbl : PriceKey(r) = PriceKey(s) => r = s

\* C5: both history tables hold at most one row per key; a save never removes
\* or changes a stored row, and saving again what was just saved changes
\* nothing.
C5_KeyedHistory ==
    /\ UniqueCcuKeys(ccu_history)
    /\ UniquePriceKeys(price_history)
    /\ \A a \in Items, data_list \in SeqsUpTo(CcuPoints, MaxLen), value_type \in ValueTypes :
          LET once == save_ccu_data(ccu_history, a, data_list, value_type)
          IN /\ ccu_history \subseteq once
             /\ UniqueCcuKeys(once)
             /\ save_ccu_data(once, a, data_list, value_type) = once
    /\ \A records \in SeqsUpTo(PriceRecords, MaxLen) :
          LET once == save_price_data_batch(price_history, records)
          IN /\ price_history \subseteq once
             /\ UniquePriceKeys(once)
             /\ save_price_data_batch(once, records) = once
    /\ \A a \in Items, data_list \in SeqsUpTo(PricePoints, MaxLen) :
          LET once == save_price_data(price_history, a, data_list)
          IN /\ price_history \subseteq once
             /\ save_price_data(once, a, data_list) = once

\* In both tables a save has met a stored row with its key and another value.
C5_Witness == conflicts = {"ccu", "price"}

\* Stage 1 of the batch the recorded calls belong to has returned.
Stage1Finished == pc \notin {"lookup", "stage1"}

\* C6: a Stage-2 history call is made only once Stage 1 has finished for the
\* batch and only for a currency Stage 1 confirmed for the item; an item with
\* an identifier and no confirmed currency is marked in error and gets no call.
C6_Stage2OnlyConfirmed ==
    source = "itad" =>
        /\ \A ac \in history_calls : Stage1Finished /\ ac[2] \in available_currencies[ac[1]]
        /\ pc \in {"items", "stage2", "save"} =>
              \A k \in 1..Len(CurBatch) :
                 LET a == CurBatch[k]
                 IN (k < item_idx /\ a \in uuid_cache /\ available_currencies[a] = {}) =>
                       /\ app_status[a].status = "itad_error"
                       /\ app_status[a].itad_error = Message("No currencies found in ITAD", "")
                       /\ \A c \in CurrencySet : <<a, c>> \notin history_calls

C6_Witness ==
    /\ source = "itad" /\ pc = "save"
    /\ \E ac \in history_calls : available_currencies[ac[1]] # CurrencySet
    /\ \E a \in Items : /\ app_status[a].status = "itad_error"
                         /\ app_status[a].itad_error = Message("No currencies found in ITAD", "")

\* C7: the retry-errors reset puts every item whose status is an error state
\* back to pending and clears its error fields.
C7_RetryResetsEveryError ==
    [][retry_itad_errors =>
          \A a \in Items :
             IsErrorStatus(app_status[a].status) =>
                /\ app_status'[a].status = "pending"
                /\ app_status'[a].itad_error = NULL
                /\ app_status'[a].ccu_error = NULL
                /\ app_status'[a].price_error = NULL]_vars

\* C8: the retry-errors reset leaves every status row that is not in an error
\* state, and both history tables, as they were.
C8_RetryFrame ==
    [][retry_itad_errors =>
          /\ \A a \in Items :
                ~IsErrorStatus(app_status[a].status) => app_status'[a] = app_status[a]
          /\ ccu_history' = ccu_history
          /\ price_history' = price_history]_vars

C8_Witness ==
    /\ retried /\ pc = "load"
    /\ \E a \in Items : app_status[a].status = "itad_completed"
    /\ price_history # {}

\* C9: once the running flag of a run is cleared no further batch is
\* dispatched, no item outside the dispatched batches is marked processing,
\* and the run returns.
C9_StopEndsLoop ==
    /\ [][(~running /\ ~NoRun) =>
            /\ dispatched' \subseteq dispatched
            /\ \A a \in Items :
                  (app_status'[a].status = "itad_processing"
                     /\ app_status[a].status # "itad_processing") => a \in DispatchedItems]_vars
    /\ (~running /\ ~NoRun /\ runs <= MaxRuns) ~> NoRun

C9_Witness ==
    /\ pc = "done" /\ cancelled /\ ~running
    /\ dispatched # {} /\ dispatched # DOMAIN batches

StopErrorTexts ==
    {Message("No currencies found in ITAD", ""), Message("No history records found", "")}

\* Every probe or history call of item a of the current batch was skipped
\* because the flag was cleared; none was made.
Untried(a) ==
    /\ a \in skipped /\ a \in Range(CurBatch)
    /\ \A c \in CurrencySet : <<a, c>> \notin history_calls
    /\ available_currencies[a] = {} => cur_idx = 1

\* C10: clearing the flag while a batch is in flight does not by itself put an
\* item into an error state: an item none of whose calls was made is not
\* marked in error for missing currencies or missing records.
C10_StopAloneMakesNoError ==
    (source = "itad" /\ pc \in {"items", "stage2", "save", "post"}) =>
        \A a \in Items :
            Untried(a) => ~(/\ app_status[a].status = "itad_error"
                            /\ app_status[a].itad_error \in StopErrorTexts)


\* C11: for each source at most one orchestrator run is active at any time:
\* a start or retry-errors request made while a started run thread has not
\* yet returned starts no second run thread.
C11_SingleRunPerSource == Cardinality(ActiveThreads) <= 1


\* C12: with every session of the pool leased, a further get_context() does
\* not return before a lease has been given back, and it returns after that
\* release: no context is handed to two callers, and a caller inside
\* get_context for whom a context is free, or who has taken one, eventually
\* holds it as a lease (or is waiting at an empty pool again, another caller
\* having taken the context).
Holding(c) == caller[c].pos \in {"clear", "add", "leased", "return"}
C12_CheckoutWaitsForRelease ==
    /\ [](\A c, d \in Callers :
            (c # d /\ Holding(c) /\ Holding(d)) => caller[c].context # caller[d].context)
    /\ \A c \in Callers :
         ((caller[c].pos = "get" /\ available_contexts # <<>>) \/ caller[c].pos \in {"clear", "add"})
            ~> (caller[c].pos = "leased" \/ (caller[c].pos = "get" /\ available_contexts = <<>>))

\* C13: after return_context(s) of a session whose cookie set K is not empty,
\* the next get_context() returns a session whose jar contains every cookie
\* of K.
C13_ReleasedCookiesVisible ==
    [][\A c \in Callers :
         (caller[c].pos # "leased" /\ caller'[c].pos = "leased")
            => released \subseteq context_cookies'[caller'[c].context]]_vars


\* C14: a RateLimiter of rate 2 per second serves 10 back-to-back acquire()
\* calls, started on the fresh limiter with no other delay, in a total time
\* of at least 4.5 s and at most 6 s.
C14_TenCallsAtRateTwo ==
    (rate = 2 /\ acquired = 10 /\ idle_ticks = 0) =>
        /\ 2 * (now - StartTime) >= 9 * TicksPerSecond
        /\ now - StartTime <= 6 * TicksPerSecond


\* C15: when several worker threads of one fetcher call _rate_limit at the
\* same time, any two requests it admits are at least min_request_interval
\* apart.
C15_AdmissionsSpaced ==
    \A i, j \in 1..Len(admitted) :
        i < j => admitted[j] - admitted[i] >= min_request_interval


\* C16: initialize_app_ids inserts a pending row for each loaded ID that has
\* no row yet and leaves every field of each existing row unchanged;
\* afterwards every loaded ID has its row, one INSERT having been executed
\* per new ID, also when the list holds an ID more than once.
C16_InitializeOnlyAddsPending ==
    [][CpInitialize =>
         /\ \A a \in Items :
              /\ RowExists(app_status, a) => app_status'[a] = app_status[a]
              /\ (~RowExists(app_status, a) /\ a \in Range(app_ids'))
                    => app_status'[a] = PendingRow
              /\ (~RowExists(app_status, a) /\ a \notin Range(app_ids'))
                    => ~RowExists(app_status', a)
         /\ initialized' = Cardinality({a \in Range(app_ids') : ~RowExists(app_status, a)})]_vars

\* A list with a repeated ID has been initialized over a store that holds a
\* row in another state than pending and lacks the row of the repeated ID.
C16_Witness ==
    /\ \E i, j \in 1..Len(app_ids) : i # j /\ app_ids[i] = app_ids[j]
    /\ initialized = 1
    /\ \E a \in Range(app_ids) : app_status[a].status \notin {"pending", "absent"}
    /\ \E a \in Range(app_ids) : app_status[a].status = "pending"


\* C17: every item that an orchestrator run hands to a fetcher was in state
\* pending in the status store when the run built its batches.
C17_HandedItemsWerePending == \A h \in handed : h.status = "pending"


\* C18: a run dispatches only items that are pending in the store and present
\* in the list loaded for this run: every batch it dispatches lies within the
\* loaded list, and no step of the run changes the status row of an item that
\* is pending in the store and absent from the loaded list.
C18_OnlyLoadedItemsDispatched ==
    /\ [](\A k \in dispatched : Range(batches[k]) \subseteq Range(app_ids))
    /\ [][(CcuRun \/ ItadRun) =>
            \A a \in Items :
                (app_status[a].status = "pending" /\ a \notin Range(app_ids'))
                    => app_status'[a] = app_status[a]]_vars


\* C19: a fetch that returns zero records never moves the item to a success
\* state: the item is put in an error state, by mark_ccu_done and
\* mark_price_done called with a count of 0 on any store a run can produce,
\* and by the steps of the orchestrators that handle an empty result; an item
\* enters a success state only in a step that holds records for it.
SuccessStates == {"ccu_done", "price_done", "completed", "itad_completed"}
C19_ZeroRecordsIsError ==
    /\ [](\A a \in Items :
            /\ IsErrorStatus(mark_ccu_done(use_postgresql, app_status, a, 0)[a].status)
            /\ IsErrorStatus(mark_price_done(use_postgresql, app_status, a, 0)[a].status))
    /\ [][/\ (ScMark /\ ccu_results[CurBatch[item_idx]] = <<>>)
                => IsErrorStatus(app_status'[CurBatch[item_idx]].status)
          /\ (DbSaveItem /\ item_idx <= Len(CurBatch) /\ ccu_results[CurBatch[item_idx]] = <<>>)
                => IsErrorStatus(app_status'[CurBatch[item_idx]].status)
          /\ (DbPrice /\ item_idx <= Len(CurBatch) /\ price_history' = price_history)
                => IsErrorStatus(app_status'[CurBatch[item_idx]].status)
          /\ (ItadItemDone /\ game_records = <<>>)
                => IsErrorStatus(app_status'[CurBatch[item_idx]].status)
          /\ \A a \in Items :
                (app_status'[a].status \in SuccessStates
                    /\ app_status'[a].status # app_status[a].status)
                  => \/ pc \in {"sc_mark", "db_save"} /\ ccu_results[a] # <<>>
                     \/ pc = "stage2" /\ game_records # <<>>
                     \/ pc = "db_price" /\ price_history' # price_history]_vars

\* Both kinds of empty result have been handled: an item marked for a CCU
\* fetch that returned nothing, another for an ITAD fetch without records.
C19_Witness ==
    /\ \E a \in Items : /\ app_status[a].status = "ccu_error"
                        /\ app_status[a].ccu_error = Message("No data returned", "")
    /\ \E a \in Items : /\ app_status[a].status = "itad_error"
                        /\ app_status[a].itad_error = Message("No history records found", "")


\* C20: every status change made for the dual-fetch source follows
\* pending -> {ccu_done | ccu_error} -> {completed | price_done | price_error
\* | both_error}: no step of a CCU run moves an item back to an earlier stage
\* or from a success state to an error state of the same stage.
FirstStage == {"ccu_done", "ccu_error"}
SecondStage == {"completed", "price_done", "price_error", "both_error"}
Follows(old, new) ==
    \/ old = "absent" /\ new = "pending"
    \/ old = "pending" /\ new \in FirstStage
    \/ old \in FirstStage /\ new \in SecondStage
C20_DualFetchMonotonic ==
    [][CcuRun =>
         \A a \in Items :
             app_status'[a].status # app_status[a].status
                => Follows(app_status[a].status, app_status'[a].status)]_vars


\* C21: a failed price sub-result recorded for an item whose CCU sub-result
\* had succeeded leaves the item in a status that the same operations never
\* give to an item whose CCU sub-result had failed, whether the failure is
\* recorded by mark_app_error(app, 'price', ...) or by mark_price_done(app, 0).
CcuFailedTable == [EmptyTable EXCEPT ![1] = [DefaultRow EXCEPT !.status = "ccu_error"]]
BothFailedStates ==
    UNION {{mark_price_done(pg, CcuFailedTable, 1, 0)[1].status,
            mark_app_error(pg, CcuFailedTable, {}, 1, "price", NULL).tbl[1].status}
           : pg \in BOOLEAN}
C21_OneFailedDiffersFromBothFailed ==
    [][\A a \in Items :
         (/\ app_status[a].status = "ccu_done"
          /\ CpMarkPriceDone(a, 0) \/ CpMarkAppError(a, "price"))
            => app_status'[a].status \notin BothFailedStates]_vars


\* C22: in every reachable state each item in an error state has at least
\* one entry in the errors table, and its status row carries the message of
\* such an entry: every CheckpointManager operation that writes an error
\* state also appends to the error log.
C22_ErrorStateIsLogged ==
    \A a \in Items :
        IsErrorStatus(app_status[a].status)
            => \E e \in errors :
                  /\ e.app_id = a
                  /\ e.error_message \in {app_status[a].ccu_error, app_status[a].price_error,
                                          app_status[a].itad_error}


\* C23: a fetcher call gives a result for every ID of its batch and raises
\* for no item: parse_ccu_batch returns a map whose key set is exactly the
\* IDs of the batch on the interception, fallback and exception paths, and
\* fetch_ccu_data returns a result, empty after not-found, non-200, timeout
\* and throttling through all retries.
C23_ResultForEveryId ==
    fetch.pos = "returned"
        => /\ ~fetch.raised
           /\ fetch.fetcher = "parse_ccu_batch" => DOMAIN fetch.results = Range(fetch.batch)
           /\ fetch.fetcher = "fetch_ccu_data"
                => /\ DOMAIN fetch.results = {"avg"}
                   /\ fetch.path \cap {"not_found", "non_200", "timeout", "throttled"} # {}
                         => fetch.results.avg = <<>>

\* Calls have returned on each of the paths the claim names, and the call
\* that returned last handled a batch of two IDs through its handler.
C23_Witness ==
    /\ fetch_paths = ObservedPaths
    /\ fetch.pos = "returned" /\ fetch.fetcher = "parse_ccu_batch"
    /\ "exception" \in fetch.path /\ Cardinality(Range(fetch.batch)) = 2


\* C24: a run that finds no item list file ends with an error raised to the
\* caller of run(), has dispatched no batch and has changed no item's state;
\* this holds for the CCU orchestrator and for the ITAD orchestrator.
C24_MissingListIsFatal ==
    (pc = "done" /\ run_exit.list_missing)
        => /\ run_exit.raised # ""
           /\ dispatched = {}
           /\ batches = <<>>


\* C25: update_app_status has the same effect under both backends: two
\* stores, one on SQLite and one on PostgreSQL, given the same sequence of
\* calls hold equal status rows after every call, the columns a call does not
\* name keeping their previous value in both.
C25_BackendsAgree == twin_status = app_status


\* C26: every step that changes the state of an item in app_status writes
\* last_updated in the same statement: after the step the row carries the
\* time of the step. This covers the mark_* operations, the insert as
\* pending and the reset to pending of the retry-errors operation.
C26_StateChangeIsStamped ==
    [][\A a \in Items :
         app_status'[a].status # app_status[a].status
            => app_status'[a].last_updated = now']_vars


\* C27: a checkpoint snapshot is written after every dispatched batch,
\* whether the batch succeeded or failed, by every orchestrator loop: when a
\* loop is back at its top after a batch, the snapshot on disk holds the
\* statistics of the store.
C27_CheckpointAfterEveryBatch ==
    (pc = "loop" /\ dispatched # {})
        => checkpoint = save_checkpoint(app_status, ccu_history, price_history)


\* C28: when a run returns after cancellation, the snapshot on disk holds
\* the statistics of the status store as they are at that moment: a
\* checkpoint was written after the last status change of the run, also when
\* the flag was cleared before the first batch was dispatched.
C28_FinalCheckpointOnCancel ==
    (pc = "done" /\ cancelled)
        => checkpoint = save_checkpoint(app_status, ccu_history, price_history)


\* C29: the session run_async obtains with get_context() is given back with
\* return_context() on every exit path (the loop ran to its end, a batch
\* raised, the run was cancelled): when run_async has ended no session is
\* leased, and while its loop works on the batches exactly one is.
C29_SessionReturnedOnEveryExit ==
    /\ (IsCcu /\ pc = "done") => leased = 0
    /\ (source = "steamdb" /\ pc \in {"loop", "db_ccu", "db_save", "db_price", "db_except", "after"})
          => leased = 1

\* A steamdb run has ended after a batch of two items raised and after the
\* run was cancelled.
C29_Witness ==
    /\ source = "steamdb" /\ pc = "done"
    /\ raised # NoRaise
    /\ cancelled
    /\ \E k \in dispatched : Len(batches[k]) = 2
    /\ leased = 0


\* C30: BatchManager(ids, n) splits ids into consecutive slices in input
\* order: the batches concatenated give ids back, every batch but the last
\* holds exactly n IDs, the last holds between 1 and n, and an empty list
\* gives no batch.
RECURSIVE Flatten(_)
Flatten(bs) == IF bs = <<>> THEN <<>> ELSE Head(bs) \o Flatten(Tail(bs))
C30_BatchesPartitionInOrder ==
    LET n == batch_manager.n
        bs == batch_manager.batches
    IN n >= 1
         => /\ Flatten(bs) = batch_manager.app_ids
            /\ \A k \in 1..(Len(bs) - 1) : Len(bs[k]) = n
            /\ bs # <<>> => Len(bs[Len(bs)]) \in 1..n
            /\ batch_manager.app_ids = <<>> => bs = <<>>

\* A list holding an ID twice was split into several batches, the last one
\* shorter than the others.
C30_Witness ==
    /\ batch_manager.n >= 2
    /\ Len(batch_manager.batches) >= 2
    /\ Len(batch_manager.batches[Len(batch_manager.batches)]) < batch_manager.n
    /\ \E i, j \in 1..Len(batch_manager.app_ids) :
          i # j /\ batch_manager.app_ids[i] = batch_manager.app_ids[j]


\* C31: after any sequence of get_next_batch() and mark_batch_processed()
\* calls, get_next_batch() returns the first batch in plan order that is not
\* in the processed set, and None only when every batch is in it, that is
\* when has_pending_batches() is false.
FirstUnprocessed(bs, processed) ==
    IF has_pending_batches(bs, processed)
    THEN CHOOSE k \in 1..Len(bs) :
            /\ bs[k] \notin processed
            /\ \A j \in 1..(k - 1) : bs[j] \in processed
    ELSE 0
C31_NextIsFirstUnprocessed ==
    [][BmGetNextBatch => next_batch' = FirstUnprocessed(batches, processed_set)]_vars


\* C32: an item whose request was answered 404 ends with a status row
\* different from that of an item whose transient failures (timeout, 429,
\* non-200) exhausted the retries: expected absence and retry exhaustion can
\* be told apart on the status row.
Exhausted == {"throttled", "timeout", "non_200"}
C32_AbsenceDiffersFromExhaustion ==
    \A a, b \in Items :
        ("not_found" \in fetch_outcome[a] /\ fetch_outcome[b] \cap Exhausted # {})
            => \/ app_status[a].status # app_status[b].status
               \/ app_status[a].ccu_error # app_status[b].ccu_error

\* C33: one call of _fetch_api sends at most STEAMCHARTS_RETRY_ATTEMPTS
\* requests and one call of _request at most max_retries; a call whose every
\* attempt is answered 429 ends after that many attempts with an empty result
\* (None for _request), it neither retries further nor raises.
C33_RetriesAreBounded ==
    /\ fetch.fetcher = "fetch_ccu_data" => fetch.idx + 1 <= STEAMCHARTS_RETRY_ATTEMPTS
    /\ (fetch.fetcher = "fetch_ccu_data" /\ fetch.pos = "returned" /\ "throttled" \in fetch.path)
          => /\ fetch.results = [avg |-> <<>>]
             /\ fetch.idx + 1 = STEAMCHARTS_RETRY_ATTEMPTS
    /\ request.sent <= max_retries
    /\ (request.only_429 /\ request.pos \in {"returned", "raised"})
          => /\ request.pos = "returned"
             /\ request.result = "None"
             /\ request.sent = max_retries

\* The entry of the parsed response a record was made from.
SourceEntry(r) == CHOOSE en \in Range(parsed.data) : en.timestamp = r.datetime
RecordsOf(en) == {k \in 1..Len(parsed.records) : parsed.records[k].datetime = en.timestamp}

\* C34: every record the parsing loop emits for the expected currency comes
\* from an entry whose own currency is the expected one; an entry carrying
\* another currency yields no record, and the entries after it are parsed.
C34_RecordsComeFromExpectedCurrency ==
    /\ \A k \in 1..Len(parsed.records) :
          SourceEntry(parsed.records[k]).currency = parsed.currency
    /\ \A i \in 1..Len(parsed.data) :
          /\ parsed.data[i].currency \notin {parsed.currency, ""} => RecordsOf(parsed.data[i]) = {}
          /\ parsed.data[i].currency = parsed.currency => RecordsOf(parsed.data[i]) # {}

\* C35: coroutines of one event loop that call get_context() and
\* return_context() concurrently never block the loop on context_lock; each
\* return_context() completes, and a get_context() for which a context is
\* available returns it (or finds the pool empty again, another caller
\* having taken the context).
C35_PoolNeverDeadlocks ==
    /\ [](~loop_blocked)
    /\ \A c \in Callers : (caller[c].pos = "return") ~> (caller[c].pos = "idle")
    /\ \A c \in Callers :
         (caller[c].pos = "get" /\ available_contexts # <<>>)
            ~> (caller[c].pos = "leased" \/ available_contexts = <<>>)

\* The holders of a context.
Holders(x) == {c \in Callers : Holding(c) /\ caller[c].context = x}
Leased == {x \in Contexts : Holders(x) # {}}

\* C36: while every return_context() was for a lease of its caller,
\* available_contexts has no duplicates and holds contexts of the pool only,
\* no context is leased to two holders or leased and available, and no more
\* contexts are leased than create_context_pool created; a return_context()
\* whose locked section finds its context available, or not of the pool,
\* leaves available_contexts as it is.
C36_PoolInvariants ==
    /\ [](~returned_twice =>
            /\ \A i, j \in 1..Len(available_contexts) :
                  i # j => available_contexts[i] # available_contexts[j]
            /\ Range(available_contexts) \subseteq Contexts
            /\ \A x \in Contexts : Cardinality(Holders(x)) <= 1
            /\ Leased \cap Range(available_contexts) = {}
            /\ Cardinality({c \in Callers : Holding(c)}) <= num_contexts)
    /\ [][\A c \in Callers :
            (/\ return_context(c)
             /\ \/ caller[c].context \in Range(available_contexts)
                \/ caller[c].context \notin Contexts)
               => available_contexts' = available_contexts]_vars

\* A return_context() for a context that is not of the pool has completed
\* (only its cookies can be in the file while no context of the pool has
\* any) and has left the pool as it was: one context leased, one available.
C36_Witness ==
    /\ ~returned_twice
    /\ Range(available_contexts) \subseteq Contexts
    /\ cookies_file = {1} /\ context_cookies = [x \in Contexts |-> {}]
    /\ \A c \in Callers : caller[c].pos \in {"idle", "leased"}
    /\ Cardinality(Leased) = 1 /\ Len(available_contexts) = 1

\* C37: every record Stage 2 fetched for a confirmed currency of an item is
\* stored, also when another currency has a record at the same time stamp:
\* records of different currencies carry different currency_symbol values.
C37_CurrenciesDoNotSuppressEachOther ==
    /\ \A f \in fetched : \E r \in price_history :
          /\ r.app_id = f.app_id /\ r.datetime = f.datetime
          /\ r.currency_name = get_currency_name(f.currency)
    /\ \A f, g \in fetched :
          f.currency # g.currency => get_currency_symbol(f.currency) # get_currency_symbol(g.currency)

\* C38: the dispatch loop of run_async makes at most one pass per planned
\* batch and then ends, also when batches raise and stay unmarked:
\* get_next_batch returns no batch twice.
C38_DispatchLoopTerminates ==
    /\ [](/\ dispatch.iterations <= Len(batches)
          /\ \A i, j \in 1..Len(dispatch.returned) :
                i # j => dispatch.returned[i] # dispatch.returned[j])
    /\ (dispatch.pos = "loop") ~> (dispatch.pos = "done")

\* The loop has ended without a stop request after one pass for each of
\* three batches, one of which raised and is still pending.
C38_Witness ==
    /\ dispatch.pos = "done" /\ running
    /\ Len(batches) = 3 /\ dispatch.iterations = 3
    /\ has_pending_batches(batches, processed_set)

\* C39: a run whose thread had set itad_parser_running when /itad/stop
\* answered 'stopping' has its own running flag cleared once its parser
\* exists, and dispatches no further batch, however the handler interleaves
\* with the start-up and the shutdown of the thread.
C39_StopReachesTheRun ==
    [][\A t \in stop_targets :
          /\ itad_thread'[t].pos \in {"load", "loop"} => ~itad_thread'[t].running
          /\ ThreadBatch(t) => itad_thread'[t].left = itad_thread[t].left]_vars

\* C40: while no run is under way the counts of get_statistics partition the
\* items, total = completed + pending + errors, and when no item is pending
\* the status operation reports a progress of 100 percent, whichever source
\* processed the items.
C40_CountsPartitionItems ==
    NoRun =>
        LET stats == get_statistics(app_status, ccu_history, price_history)
        IN /\ stats.total = stats.completed + stats.pending + stats.errors
           /\ (stats.total > 0 /\ stats.pending = 0) => progress_percent(stats) = 10000

====
